---- MODULE Spec2Model ----
(***************************************************************************)
(* Follow relationship handlers of backend_soundcave and the handlers that *)
(* write the same rows (profile update, soft delete), as concurrent        *)
(* requests against the relational store.  Every handler is               *)
(* "db.First -> checks on the copy -> db.Save of the whole copy"; the two  *)
(* database calls are separate steps, so requests interleave between them. *)
(***************************************************************************)
EXTENDS Integers, Sequences, FiniteSets, TLC

VARIABLES users, artists, req, client, now, tok, call

\* the rows and requests of the follow handlers; the sequential caller; the
\* clock, the token in circulation and the request in front of AuthMiddleware
authVars == <<now, tok, call>>
vars == <<users, artists, req, client, now, tok, call>>

\* ---------------------------------------------------------------- bounds
NumUsers == 3
NumArtists == 1
NumSlots == 2
MaxSeed == 1
NumCalls == 4
MaxNow == 32
MaxIssue == 1
MaxHeader == 3

UserIds == 1..NumUsers
ArtistIds == 1..NumArtists
Slots == 1..NumSlots

\* ---------------------------------------------------------------- models
RoleUser == "user"
RoleAdmin == "admin"
RolePremium == "premium"
RoleIndependent == "independent"
RoleLabel == "label"
Roles == {RoleUser, RoleAdmin, RolePremium, RoleIndependent, RoleLabel}

\* HTTP status codes of fiber
StatusOK == 200
StatusCreated == 201
StatusBadRequest == 400
StatusUnauthorized == 401
StatusForbidden == 403
StatusNotFound == 404
StatusConflict == 409
StatusInternalServerError == 500

\* fmt.Sprintf("%d", n): the decimal digits of n, most significant first
RECURSIVE Sprintf(_)
Sprintf(n) == IF n < 10 THEN <<n>> ELSE Sprintf(n \div 10) \o <<n % 10>>

\* a scan that compares against the first element only
ContainsFirst(followers, s) == followers # <<>> /\ followers[1] = s

\* "for _, followerID := range followers { if followerID == s ..." : linear scan
Contains(followers, s) == \E i \in 1..Len(followers) : followers[i] = s

\* a removal that empties the list
RemoveAllFollowers(followers, s) == <<>>

\* the unfollow loop: every element different from s, in order
RECURSIVE RemoveFollower(_, _)
RemoveFollower(followers, s) ==
    IF followers = <<>> THEN <<>>
    ELSE IF Head(followers) = s THEN RemoveFollower(Tail(followers), s)
    ELSE <<Head(followers)>> \o RemoveFollower(Tail(followers), s)

\* an insert at the head of the list
AddFollowerFront(row, s) ==
    [row EXCEPT !.followers = <<s>> \o row.followers,
                !.total = Len(row.followers) + 1]

\* the append without the recount
AddFollowerStaleCount(row, s) ==
    [row EXCEPT !.followers = Append(row.followers, s)]

\* "Followers = append(Followers, s); TotalFollower = len(Followers)"
AddFollower(row, s) ==
    [row EXCEPT !.followers = Append(row.followers, s),
                !.total = Len(row.followers) + 1]

\* the removal without the recount
DropFollowerStaleCount(row, s) ==
    [row EXCEPT !.followers = RemoveFollower(row.followers, s)]

\* "Followers = newFollowers; TotalFollower = len(newFollowers)"
DropFollower(row, s) ==
    [row EXCEPT !.followers = RemoveFollower(row.followers, s),
                !.total = Len(RemoveFollower(row.followers, s))]

\* a role test that lets every role but admin through
FollowableNotAdmin(role) == role # RoleAdmin

\* "targetUser.Role != RoleIndependent && targetUser.Role != RoleLabel" negated
Followable(role) == role = RoleIndependent \/ role = RoleLabel

\* db.First(&row, id): ErrRecordNotFound for no row or a soft-deleted row
Found(table, ids, id) == id \in ids /\ id \in DOMAIN table /\ ~table[id].deleted

\* ------------------------------------------------------- request context
\* pc: "idle" (no request), "lookup" (db.First done, the email lookup of
\* UpdateUserHandler or UpdateArtistHandler pending), "save" (the reads done,
\* db.Save or db.Create pending), "done"
\* uid, role: c.Locals("user_id"), c.Locals("role") as set by AuthMiddleware
\* target: the id the handler looks up; body: the parsed request body
\* local: the handler's copy of the row; resp: the JSON response
NoRow == [id |-> 0, followers |-> <<>>, total |-> 0, deleted |-> FALSE]
NoBody ==
    [ok |-> TRUE, role |-> "", email |-> "", password |-> FALSE, hashErr |-> FALSE,
     tooLong |-> FALSE]
NoResp == [code |-> 0, msg |-> "", id |-> 0, total |-> 0]
NewReq ==
    [pc |-> "idle", kind |-> "", uid |-> 0, role |-> "", target |-> 0,
     body |-> NoBody, local |-> NoRow, resp |-> NoResp]

Resp(code, msg) == [code |-> code, msg |-> msg, id |-> 0, total |-> 0]
\* the 200 answer without its data
RespOKNoData(row) == [code |-> StatusOK, msg |-> "ok", id |-> 0, total |-> 0]

\* 200 with "data": the row's ID and TotalFollower as the handler holds them
RespOK(row) == [code |-> StatusOK, msg |-> "ok", id |-> row.id, total |-> row.total]

\* return c.Status(code).JSON(...) before any write
Reject(r, code, msg) == [r EXCEPT !.pc = "done", !.resp = Resp(code, msg)]
\* the handler holds the row db.First returned and goes on to modify and save it
Proceed(r, row) == [r EXCEPT !.pc = "save", !.local = row]

\* request bodies: FollowRequest {target_user_id}, or one BodyParser rejects
FollowBodies ==
    {[ok |-> FALSE, target |-> 0]} \cup {[ok |-> TRUE, target |-> t] : t \in 0..NumUsers}

\* FollowUserHandler without the "already following" scan
FollowUserCheckNoScan(r, body, table) ==
    IF r.role # RoleUser THEN Reject(r, StatusForbidden, "role_forbidden")
    ELSE IF ~body.ok THEN Reject(r, StatusBadRequest, "parse")
    ELSE IF body.target = 0 THEN Reject(r, StatusBadRequest, "target_required")
    ELSE IF body.target = r.uid
        THEN Reject([r EXCEPT !.target = body.target], StatusBadRequest, "self_follow")
    ELSE LET q == [r EXCEPT !.target = body.target] IN
         IF ~Found(table, UserIds, body.target) THEN Reject(q, StatusNotFound, "not_found")
         ELSE IF ~Followable(table[body.target].role)
             THEN Reject(q, StatusBadRequest, "target_role")
         ELSE Proceed(q, table[body.target])

\* FollowUserHandler up to db.Save
FollowUserCheck(r, body, table) ==
    IF r.role # RoleUser THEN Reject(r, StatusForbidden, "role_forbidden")
    ELSE IF ~body.ok THEN Reject(r, StatusBadRequest, "parse")
    ELSE IF body.target = 0 THEN Reject(r, StatusBadRequest, "target_required")
    ELSE IF body.target = r.uid
        THEN Reject([r EXCEPT !.target = body.target], StatusBadRequest, "self_follow")
    ELSE LET q == [r EXCEPT !.target = body.target] IN
         IF ~Found(table, UserIds, body.target) THEN Reject(q, StatusNotFound, "not_found")
         ELSE IF ~Followable(table[body.target].role)
             THEN Reject(q, StatusBadRequest, "target_role")
         ELSE IF Contains(table[body.target].followers, Sprintf(r.uid))
             THEN Reject(q, StatusConflict, "already_following")
         ELSE Proceed(q, table[body.target])

\* UnfollowUserHandler without the "found" test
UnfollowUserCheckNoFound(r, body, table) ==
    IF r.role # RoleUser THEN Reject(r, StatusForbidden, "role_forbidden")
    ELSE IF ~body.ok THEN Reject(r, StatusBadRequest, "parse")
    ELSE IF body.target = 0 THEN Reject(r, StatusBadRequest, "target_required")
    ELSE LET q == [r EXCEPT !.target = body.target] IN
         IF ~Found(table, UserIds, body.target) THEN Reject(q, StatusNotFound, "not_found")
         ELSE Proceed(q, table[body.target])

\* UnfollowUserHandler up to db.Save
UnfollowUserCheck(r, body, table) ==
    IF r.role # RoleUser THEN Reject(r, StatusForbidden, "role_forbidden")
    ELSE IF ~body.ok THEN Reject(r, StatusBadRequest, "parse")
    ELSE IF body.target = 0 THEN Reject(r, StatusBadRequest, "target_required")
    ELSE LET q == [r EXCEPT !.target = body.target] IN
         IF ~Found(table, UserIds, body.target) THEN Reject(q, StatusNotFound, "not_found")
         ELSE IF ~Contains(table[body.target].followers, Sprintf(r.uid))
             THEN Reject(q, StatusBadRequest, "not_following")
         ELSE Proceed(q, table[body.target])

\* FollowArtistHandler up to db.Save
FollowArtistCheck(r, id, table) ==
    LET q == [r EXCEPT !.target = id] IN
    IF ~Found(table, ArtistIds, id) THEN Reject(q, StatusNotFound, "not_found")
    ELSE IF Contains(table[id].followers, Sprintf(r.uid))
        THEN Reject(q, StatusConflict, "already_following")
    ELSE Proceed(q, table[id])

\* UnfollowArtistHandler up to db.Save
UnfollowArtistCheck(r, id, table) ==
    LET q == [r EXCEPT !.target = id] IN
    IF ~Found(table, ArtistIds, id) THEN Reject(q, StatusNotFound, "not_found")
    ELSE IF ~Contains(table[id].followers, Sprintf(r.uid))
        THEN Reject(q, StatusBadRequest, "not_following")
    ELSE Proceed(q, table[id])

\* the email column of the accounts the server starts with
InitEmail(u) == "user" \o ToString(u) \o "@soundcave.id"

\* the password column of the accounts the server starts with: the account
\* with the highest id was made by GoogleAuthHandler and has none (NULL, ""),
\* the others hold a bcrypt hash
InitPassword(u) == IF u = NumUsers THEN "" ELSE "hash"

\* an address no account has at the start
NewAddress == InitEmail(NumUsers + 1)

\* the addresses requests carry
Addresses == {InitEmail(u) : u \in 1..(NumUsers + 1)}

\* db.Where("email = ?", email).First(&user): the id of the live row with the
\* email, 0 for ErrRecordNotFound
ByEmail(table, email) ==
    IF \E u \in DOMAIN table : ~table[u].deleted /\ table[u].email = email
    THEN CHOOSE u \in DOMAIN table : ~table[u].deleted /\ table[u].email = email
    ELSE 0

\* db.Where("email = ? AND id != ?", email, id).First(&existingUser) finds a row
EmailTaken(table, id, email) ==
    \E u \in DOMAIN table : u # id /\ ~table[u].deleted /\ table[u].email = email

\* the unique index of users.email refuses the email for row id (0: a new
\* row): another row, live or soft-deleted, has it
Duplicate(table, id, email) ==
    \E u \in DOMAIN table : u # id /\ table[u].email = email

\* UpdateUserRequest as far as it reaches the modelled columns: the role and
\* email fields ("" = absent) and whether there is a password field; hashErr:
\* bcrypt.GenerateFromPassword refuses the password field (longer than 72
\* bytes, with a golang.org/x/crypto that looks at the length); tooLong: a
\* field is longer than its column (phone over 20 characters, full_name,
\* location or profile_image over 255)
UpdateBodies ==
    {[ok |-> FALSE, role |-> "", email |-> "", password |-> FALSE, hashErr |-> FALSE,
      tooLong |-> FALSE],
     [ok |-> TRUE, role |-> "", email |-> "", password |-> TRUE, hashErr |-> TRUE,
      tooLong |-> FALSE],
     [ok |-> TRUE, role |-> "", email |-> "", password |-> TRUE, hashErr |-> FALSE,
      tooLong |-> FALSE],
     [ok |-> TRUE, role |-> "", email |-> "", password |-> FALSE, hashErr |-> FALSE,
      tooLong |-> TRUE]}
    \cup {[ok |-> TRUE, role |-> x, email |-> "", password |-> FALSE, hashErr |-> FALSE,
           tooLong |-> FALSE] :
             x \in {"", RoleUser, RoleAdmin, RolePremium, "superuser"}}
    \cup {[ok |-> TRUE, role |-> x, email |-> e, password |-> FALSE, hashErr |-> FALSE,
           tooLong |-> FALSE] :
             x \in {"", RoleAdmin, "superuser"}, e \in Addresses}

\* the handler has read the row and the body and goes on to look the email up
Lookup(r, row) == [r EXCEPT !.pc = "lookup", !.local = row]

\* UpdateUserHandler after the email field without the switch on the role field
UpdateUserFieldsAnyRole(r) ==
    IF r.body.hashErr
        THEN [Reject(r, StatusInternalServerError, "hash_failed") EXCEPT !.local = NoRow]
    ELSE Proceed(r, r.local)

\* UpdateUserHandler after the email field, up to db.Save: bcrypt on the
\* password field, then the switch on the role field
UpdateUserFields(r) ==
    IF r.body.hashErr
        THEN [Reject(r, StatusInternalServerError, "hash_failed") EXCEPT !.local = NoRow]
    ELSE IF r.body.role \in {"", RoleAdmin, RolePremium, RoleUser}
        THEN Proceed(r, r.local)
    ELSE [Reject(r, StatusBadRequest, "invalid_role") EXCEPT !.local = NoRow]

\* UpdateUserHandler from db.First(&user, id): 404, BodyParser, and with an
\* email field the handler stops before its second read, the email lookup;
\* without one it makes no second read and runs on up to db.Save
UpdateUserCheck(r, id, body, table) ==
    LET q == [r EXCEPT !.target = id] IN
    IF ~Found(table, UserIds, id) THEN Reject(q, StatusNotFound, "not_found")
    ELSE IF ~body.ok THEN Reject(q, StatusBadRequest, "parse")
    ELSE IF body.email # "" THEN Lookup([q EXCEPT !.body = body], table[id])
    ELSE UpdateUserFields([q EXCEPT !.body = body, !.local = table[id]])

\* UpdateUserHandler from its email lookup, db.Where("email = ? AND id != ?",
\* *req.Email, id).First(&existingUser), on the table as it is by then: 409
\* when another live row has the email, else on up to db.Save
UpdateUserLookup(r, table) ==
    IF EmailTaken(table, r.target, r.body.email)
        THEN [Reject(r, StatusConflict, "email_taken") EXCEPT !.local = NoRow]
    ELSE UpdateUserFields(r)

\* the email column of the artists the server starts with
InitArtistEmail(a) == "artist" \o ToString(a) \o "@soundcave.id"

\* the addresses requests for artists carry
ArtistAddresses == {InitArtistEmail(a) : a \in 1..(NumArtists + 1)}

\* UpdateArtistRequest: no field of it reaches the follower columns; the email
\* field ("" = absent; artists.email has no unique index); tooLong: a field is
\* longer than its column (debut_year over 4 characters, genre or country over
\* 100, phone over 20)
ArtistBodies ==
    {[ok |-> FALSE, role |-> "", email |-> "", tooLong |-> FALSE],
     [ok |-> TRUE, role |-> "", email |-> "", tooLong |-> TRUE],
     [ok |-> TRUE, role |-> "", email |-> "", tooLong |-> FALSE]}
    \cup {[ok |-> TRUE, role |-> "", email |-> e, tooLong |-> FALSE] : e \in ArtistAddresses}

\* UpdateArtistHandler from db.First(&artist, id): 404, BodyParser, and with an
\* email field the handler stops before its second read, the email lookup;
\* without one it runs on to db.Save
UpdateArtistCheck(r, id, body, table) ==
    LET q == [r EXCEPT !.target = id] IN
    IF ~Found(table, ArtistIds, id) THEN Reject(q, StatusNotFound, "not_found")
    ELSE IF ~body.ok THEN Reject(q, StatusBadRequest, "parse")
    ELSE IF body.email # "" THEN Lookup([q EXCEPT !.body = body], table[id])
    ELSE Proceed([q EXCEPT !.body = body], table[id])

\* UpdateArtistHandler from its email lookup, db.Where("email = ? AND id != ?",
\* *req.Email, id).First(&existingArtist), on the table as it is by then: 409
\* when another live row has the email, else on to db.Save
UpdateArtistLookup(r, table) ==
    IF EmailTaken(table, r.target, r.body.email)
        THEN [Reject(r, StatusConflict, "email_taken") EXCEPT !.local = NoRow]
    ELSE Proceed(r, r.local)

\* DeleteUserHandler / DeleteArtistHandler up to db.Delete
DeleteCheck(r, id, table, ids) ==
    LET q == [r EXCEPT !.target = id] IN
    IF ~Found(table, ids, id) THEN Reject(q, StatusNotFound, "not_found")
    ELSE Proceed(q, table[id])

UserKinds == {"FollowUser", "UnfollowUser", "UpdateUser"}
ArtistKinds == {"FollowArtist", "UnfollowArtist", "UpdateArtist"}

\* ------------------------------------------------------------------ Init
InitRole(u) ==
    CASE u % 3 = 1 -> RoleIndependent
      [] u % 3 = 2 -> RoleLabel
      [] OTHER -> RoleUser

\* ref_user_id of the artist rows: artist 1 is user 1's artist page, others NULL (0)
InitRef(a) == IF a = 1 THEN 1 ELSE 0

\* follow edges that earlier requests may have left: <<table, entity, fan>>
SeedEdges ==
    {<<"users", u, f>> : u \in {x \in UserIds : Followable(InitRole(x))}, f \in UserIds}
    \cup {<<"artists", a, f>> : a \in ArtistIds, f \in UserIds}

\* FollowUserHandler refuses the caller's own id; FollowArtistHandler has no
\* test of the caller against the artist or its ref_user_id
SeedOK(e) == e[1] = "users" => e[3] # e[2]

\* at most MaxSeed distinct edges, in the order the follows happened
SeedRuns ==
    {es \in UNION {[1..n -> SeedEdges] : n \in 0..MaxSeed} :
        /\ \A i \in 1..Len(es) : SeedOK(es[i])
        /\ \A i, j \in 1..Len(es) : es[i] = es[j] => i = j}

RECURSIVE SeedList(_, _, _)
SeedList(es, table, id) ==
    IF es = <<>> THEN <<>>
    ELSE IF Head(es)[1] = table /\ Head(es)[2] = id
        THEN <<Sprintf(Head(es)[3])>> \o SeedList(Tail(es), table, id)
    ELSE SeedList(Tail(es), table, id)

\* ---------------------------------------------- caller, clock and tokens
\* the sequential caller of the follow endpoints: who it is, which record it
\* addresses, the followers and count it saw first and after each answer
NoView == [followers |-> <<>>, total |-> 0]
NoClient == [uid |-> 0, table |-> "", target |-> 0, start |-> NoView, log |-> <<>>]

\* Claims of utils: UserID, Email, Role and the registered claims
NoClaims == [uid |-> 0, email |-> "", role |-> "", exp |-> 0, iat |-> 0, nbf |-> 0]

\* A token string has three segments: the JOSE header, the JSON of the claims
\* under the keys of the struct tags, and the signature, which records the key
\* and the two segments it was computed over. NoToken is the empty string.
NoToken ==
    [header |-> [alg |-> "", typ |-> ""],
     payload |-> [user_id |-> 0, email |-> "", role |-> "", exp |-> 0, iat |-> 0, nbf |-> 0],
     signature |-> [key |-> "", header |-> [alg |-> "", typ |-> ""],
                    payload |-> [user_id |-> 0, email |-> "", role |-> "",
                                 exp |-> 0, iat |-> 0, nbf |-> 0]]]

\* c.Locals as AuthMiddleware sets them
NoLocals == [user_id |-> 0, email |-> "", role |-> ""]
\* The context of a request: the Authorization header (jwt: the token string
\* its atom "jwt" stands for), the status and message of the response,
\* c.Locals. next: the last AuthMiddleware called c.Next(); admin:
\* AdminMiddleware called c.Next(); at: the instant the request arrived; again:
\* a second AuthMiddleware of the route has looked at the request; retry: the
\* request is one the caller sent a second time
NoCall ==
    [header |-> <<>>, jwt |-> NoToken, status |-> 0, msg |-> "",
     locals |-> NoLocals, next |-> FALSE, admin |-> FALSE,
     at |-> 0, again |-> FALSE, retry |-> FALSE]

\* the rows the server starts with, no request in progress
InitStore ==
    /\ \E es \in SeedRuns :
        /\ users = [u \in UserIds |->
                      [id |-> u, role |-> InitRole(u), email |-> InitEmail(u),
                       password |-> InitPassword(u),
                       followers |-> SeedList(es, "users", u),
                       total |-> Len(SeedList(es, "users", u)), deleted |-> FALSE]]
        /\ artists = [a \in ArtistIds |->
                      [id |-> a, refUser |-> InitRef(a), email |-> InitArtistEmail(a),
                       followers |-> SeedList(es, "artists", a),
                       total |-> Len(SeedList(es, "artists", a)), deleted |-> FALSE]]
    /\ req = [p \in Slots |-> NewReq]

Init ==
    /\ InitStore
    /\ client = NoClient
    /\ now = 0
    /\ tok = NoToken
    /\ call = NoCall

\* the store of a fresh installation: nobody follows anybody
InitFresh ==
    /\ Init
    /\ \A u \in UserIds : users[u].followers = <<>>
    /\ \A a \in ArtistIds : artists[a].followers = <<>>

\* --------------------------------------------------------------- actions
Ctx(kind, uid, role) == [NewReq EXCEPT !.kind = kind, !.uid = uid, !.role = role]

\* return c.Status(code).JSON(...) after the write
Finish(r, resp) == [r EXCEPT !.pc = "done", !.local = NoRow, !.resp = resp]

FollowUserHandler(p) ==
    /\ req[p].pc = "idle"
    /\ \E uid \in UserIds, role \in Roles, body \in FollowBodies :
        req' = [req EXCEPT ![p] = FollowUserCheck(Ctx("FollowUser", uid, role), body, users)]
    /\ UNCHANGED <<users, artists, client, authVars>>

UnfollowUserHandler(p) ==
    /\ req[p].pc = "idle"
    /\ \E uid \in UserIds, role \in Roles, body \in FollowBodies :
        req' = [req EXCEPT ![p] = UnfollowUserCheck(Ctx("UnfollowUser", uid, role), body, users)]
    /\ UNCHANGED <<users, artists, client, authVars>>

FollowArtistHandler(p) ==
    /\ req[p].pc = "idle"
    /\ \E uid \in UserIds, role \in Roles, id \in ArtistIds :
        req' = [req EXCEPT ![p] = FollowArtistCheck(Ctx("FollowArtist", uid, role), id, artists)]
    /\ UNCHANGED <<users, artists, client, authVars>>

UnfollowArtistHandler(p) ==
    /\ req[p].pc = "idle"
    /\ \E uid \in UserIds, role \in Roles, id \in ArtistIds :
        req' = [req EXCEPT ![p] = UnfollowArtistCheck(Ctx("UnfollowArtist", uid, role), id, artists)]
    /\ UNCHANGED <<users, artists, client, authVars>>

UpdateUserHandler(p) ==
    /\ req[p].pc = "idle"
    /\ \E id \in UserIds, body \in UpdateBodies :
        req' = [req EXCEPT ![p] = UpdateUserCheck(Ctx("UpdateUser", 0, ""), id, body, users)]
    /\ UNCHANGED <<users, artists, client, authVars>>

\* the second read of UpdateUserHandler, which other requests' writes can
\* precede
UpdateUserEmail(p) ==
    /\ req[p].pc = "lookup"
    /\ req[p].kind = "UpdateUser"
    /\ req' = [req EXCEPT ![p] = UpdateUserLookup(req[p], users)]
    /\ UNCHANGED <<users, artists, client, authVars>>

UpdateArtistHandler(p) ==
    /\ req[p].pc = "idle"
    /\ \E id \in ArtistIds, body \in ArtistBodies :
        req' = [req EXCEPT ![p] = UpdateArtistCheck(Ctx("UpdateArtist", 0, ""), id, body, artists)]
    /\ UNCHANGED <<users, artists, client, authVars>>

\* the second read of UpdateArtistHandler, which other requests' writes can
\* precede
UpdateArtistEmail(p) ==
    /\ req[p].pc = "lookup"
    /\ req[p].kind = "UpdateArtist"
    /\ req' = [req EXCEPT ![p] = UpdateArtistLookup(req[p], artists)]
    /\ UNCHANGED <<users, artists, client, authVars>>

DeleteUserHandler(p) ==
    /\ req[p].pc = "idle"
    /\ \E id \in UserIds :
        req' = [req EXCEPT ![p] = DeleteCheck(Ctx("DeleteUser", 0, ""), id, users, UserIds)]
    /\ UNCHANGED <<users, artists, client, authVars>>

DeleteArtistHandler(p) ==
    /\ req[p].pc = "idle"
    /\ \E id \in ArtistIds :
        req' = [req EXCEPT ![p] = DeleteCheck(Ctx("DeleteArtist", 0, ""), id, artists, ArtistIds)]
    /\ UNCHANGED <<users, artists, client, authVars>>

\* "user.Role = models.RoleAdmin / RolePremium / RoleUser" when the role field is set
SetRole(row, role) == IF role = "" THEN row ELSE [row EXCEPT !.role = role]

\* "user.Email = *req.Email" when the email field is set
SetEmail(row, email) == IF email = "" THEN row ELSE [row EXCEPT !.email = email]

\* "user.Password = &hashedPasswordStr" when the password field is set: the
\* column holds a bcrypt hash
SetPassword(row, password) == IF password THEN [row EXCEPT !.password = "hash"] ELSE row

\* the copy the handler passes to db.Save: the row it read with its own change
Modified(r) ==
    CASE r.kind \in {"FollowUser", "FollowArtist"} -> AddFollower(r.local, Sprintf(r.uid))
      [] r.kind \in {"UnfollowUser", "UnfollowArtist"} -> DropFollower(r.local, Sprintf(r.uid))
      [] r.kind = "UpdateUser" ->
            SetRole(SetPassword(SetEmail(r.local, r.body.email), r.body.password),
                    r.body.role)
      [] r.kind = "UpdateArtist" -> SetEmail(r.local, r.body.email)
      [] OTHER -> r.local

\* db.Save(&row) on a live row: UPDATE of every column from the handler's copy
SaveRow(table, id, row) == [table EXCEPT ![id] = row]

\* db.Delete(&row): soft delete, sets deleted_at and nothing else
SoftDelete(table, id) == [table EXCEPT ![id].deleted = TRUE]

\* the statement of db.Save(&row) returns an error: an update handler's copy
\* holds a field longer than its column (MySQL in strict mode, its default), or
\* the copy of a user holds an email the unique index has for another row
SaveFails(r, table) ==
    \/ r.kind \in {"UpdateUser", "UpdateArtist"} /\ r.body.tooLong
    \/ r.kind \in UserKinds /\ Duplicate(table, r.target, Modified(r).email)

\* db.Save of FollowUserHandler, UnfollowUserHandler, UpdateUserHandler
SaveUser(p) ==
    /\ req[p].pc = "save"
    /\ req[p].kind \in UserKinds
    /\ ~users[req[p].target].deleted
    /\ IF SaveFails(req[p], users)
       THEN /\ users' = users
            /\ req' = [req EXCEPT ![p] =
                          Finish(req[p], Resp(StatusInternalServerError, "save_failed"))]
       ELSE /\ users' = SaveRow(users, req[p].target, Modified(req[p]))
            /\ req' = [req EXCEPT ![p] = Finish(req[p], RespOK(Modified(req[p])))]
    /\ UNCHANGED <<artists, client, authVars>>

\* db.Save of FollowArtistHandler, UnfollowArtistHandler, UpdateArtistHandler
SaveArtist(p) ==
    /\ req[p].pc = "save"
    /\ req[p].kind \in ArtistKinds
    /\ ~artists[req[p].target].deleted
    /\ IF SaveFails(req[p], artists)
       THEN /\ artists' = artists
            /\ req' = [req EXCEPT ![p] =
                          Finish(req[p], Resp(StatusInternalServerError, "save_failed"))]
       ELSE /\ artists' = SaveRow(artists, req[p].target, Modified(req[p]))
            /\ req' = [req EXCEPT ![p] = Finish(req[p], RespOK(Modified(req[p])))]
    /\ UNCHANGED <<users, client, authVars>>

\* a Save on a deleted row that writes the row and reports the failure
SaveDeletedUserHalfWritten(p) ==
    /\ req[p].pc = "save"
    /\ req[p].kind \in UserKinds
    /\ users[req[p].target].deleted
    /\ users' = SaveRow(users, req[p].target, Modified(req[p]))
    /\ \/ req' = [req EXCEPT ![p] = Finish(req[p], RespOK(Modified(req[p])))]
       \/ req' = [req EXCEPT ![p] = Finish(req[p], Resp(StatusInternalServerError, "save_failed"))]
    /\ UNCHANGED <<artists, client, authVars>>

\* db.Save when the row was soft-deleted after db.First: the UPDATE matches no
\* row and gorm falls back to an insert, which either replaces the row
\* (ON DUPLICATE KEY UPDATE) or fails on the primary key, by gorm version
SaveDeletedUser(p) ==
    /\ req[p].pc = "save"
    /\ req[p].kind \in UserKinds
    /\ users[req[p].target].deleted
    /\ \/ /\ ~SaveFails(req[p], users)
          /\ users' = SaveRow(users, req[p].target, Modified(req[p]))
          /\ req' = [req EXCEPT ![p] = Finish(req[p], RespOK(Modified(req[p])))]
       \/ /\ users' = users
          /\ req' = [req EXCEPT ![p] = Finish(req[p], Resp(StatusInternalServerError, "save_failed"))]
    /\ UNCHANGED <<artists, client, authVars>>

SaveDeletedArtist(p) ==
    /\ req[p].pc = "save"
    /\ req[p].kind \in ArtistKinds
    /\ artists[req[p].target].deleted
    /\ \/ /\ ~SaveFails(req[p], artists)
          /\ artists' = SaveRow(artists, req[p].target, Modified(req[p]))
          /\ req' = [req EXCEPT ![p] = Finish(req[p], RespOK(Modified(req[p])))]
       \/ /\ artists' = artists
          /\ req' = [req EXCEPT ![p] = Finish(req[p], Resp(StatusInternalServerError, "save_failed"))]
    /\ UNCHANGED <<users, client, authVars>>

\* db.Delete of DeleteUserHandler
DeleteUserRow(p) ==
    /\ req[p].pc = "save"
    /\ req[p].kind = "DeleteUser"
    /\ users' = SoftDelete(users, req[p].target)
    /\ req' = [req EXCEPT ![p] = Finish(req[p], Resp(StatusOK, "ok"))]
    /\ UNCHANGED <<artists, client, authVars>>

\* db.Delete of DeleteArtistHandler
DeleteArtistRow(p) ==
    /\ req[p].pc = "save"
    /\ req[p].kind = "DeleteArtist"
    /\ artists' = SoftDelete(artists, req[p].target)
    /\ req' = [req EXCEPT ![p] = Finish(req[p], Resp(StatusOK, "ok"))]
    /\ UNCHANGED <<users, client, authVars>>

Next ==
    \E p \in Slots :
        \/ FollowUserHandler(p)
        \/ UnfollowUserHandler(p)
        \/ FollowArtistHandler(p)
        \/ UnfollowArtistHandler(p)
        \/ UpdateUserHandler(p)
        \/ UpdateUserEmail(p)
        \/ UpdateArtistHandler(p)
        \/ UpdateArtistEmail(p)
        \/ DeleteUserHandler(p)
        \/ DeleteArtistHandler(p)
        \/ SaveUser(p)
        \/ SaveArtist(p)
        \/ SaveDeletedUser(p)
        \/ SaveDeletedArtist(p)
        \/ DeleteUserRow(p)
        \/ DeleteArtistRow(p)

Spec == Init /\ [][Next]_vars

\* the same requests against a fresh store
SpecFresh == InitFresh /\ [][Next]_vars

\* --------------------------------------------------------- user accounts
\* Registration, Google sign-in and the /users routes on a table that grows.

\* db.Create(&user): the next AUTO_INCREMENT id, followers "[]", total_follower 0
NewUser(id, role, email, password) ==
    [id |-> id, role |-> role, email |-> email, password |-> password,
     followers |-> <<>>, total |-> 0, deleted |-> FALSE]
Create(table, role, email, password) ==
    table @@ (Cardinality(DOMAIN table) + 1 :>
                 NewUser(Cardinality(DOMAIN table) + 1, role, email, password))

\* 201 with "data": user
RespCreated(row) == [code |-> StatusCreated, msg |-> "created", id |-> row.id, total |-> row.total]

\* RegisterRequest: BodyParser fails; a required field is empty or the
\* password short; otherwise the email it carries; hashErr: bcrypt refuses the
\* password; tooLong: full_name or email is longer than its column
RegisterBodies ==
    {[ok |-> FALSE, valid |-> FALSE, email |-> "", hashErr |-> FALSE, tooLong |-> FALSE],
     [ok |-> TRUE, valid |-> FALSE, email |-> "", hashErr |-> FALSE, tooLong |-> FALSE],
     [ok |-> TRUE, valid |-> TRUE, email |-> NewAddress, hashErr |-> TRUE, tooLong |-> FALSE],
     [ok |-> TRUE, valid |-> TRUE, email |-> NewAddress, hashErr |-> FALSE, tooLong |-> TRUE]}
    \cup {[ok |-> TRUE, valid |-> TRUE, email |-> e, hashErr |-> FALSE, tooLong |-> FALSE] :
             e \in Addresses}

\* GoogleAuthRequest with what idtoken.Validate makes of it: the email claim
\* ("" = none), whether there is a picture claim, and whether that is longer
\* than the profile_image column
GoogleBodies ==
    {[ok |-> FALSE, tokenValid |-> FALSE, email |-> "", picture |-> FALSE, tooLong |-> FALSE],
     [ok |-> TRUE, tokenValid |-> FALSE, email |-> "", picture |-> FALSE, tooLong |-> FALSE],
     [ok |-> TRUE, tokenValid |-> TRUE, email |-> "", picture |-> FALSE, tooLong |-> FALSE]}
    \cup {[ok |-> TRUE, tokenValid |-> TRUE, email |-> e, picture |-> pic, tooLong |-> FALSE] :
              e \in Addresses, pic \in BOOLEAN}
    \cup {[ok |-> TRUE, tokenValid |-> TRUE, email |-> e, picture |-> TRUE, tooLong |-> TRUE] :
              e \in {InitEmail(1), NewAddress}}

\* CreateUserRequest as far as it reaches the modelled columns
CreateBodies ==
    {[ok |-> FALSE, role |-> "", email |-> "", hashErr |-> FALSE, tooLong |-> FALSE],
     [ok |-> TRUE, role |-> "", email |-> NewAddress, hashErr |-> TRUE, tooLong |-> FALSE],
     [ok |-> TRUE, role |-> "", email |-> NewAddress, hashErr |-> FALSE, tooLong |-> TRUE]}
    \cup {[ok |-> TRUE, role |-> x, email |-> NewAddress, hashErr |-> FALSE, tooLong |-> FALSE] :
             x \in {"", RoleUser, RoleAdmin, RolePremium, RoleIndependent, "superuser"}}
    \cup {[ok |-> TRUE, role |-> x, email |-> e, hashErr |-> FALSE, tooLong |-> FALSE] :
             x \in {"", RoleAdmin}, e \in Addresses}

\* CreateArtistRequest: BodyParser fails; otherwise the email it carries;
\* tooLong: a field is longer than its column
CreateArtistBodies ==
    {[ok |-> FALSE, email |-> "", tooLong |-> FALSE],
     [ok |-> TRUE, email |-> InitArtistEmail(NumArtists + 1), tooLong |-> TRUE]}
    \cup {[ok |-> TRUE, email |-> e, tooLong |-> FALSE] : e \in ArtistAddresses}

\* db.Create(&artist): the next AUTO_INCREMENT id, ref_user_id NULL (0),
\* followers "[]", total_follower 0
NewArtist(id, email) ==
    [id |-> id, refUser |-> 0, email |-> email, followers |-> <<>>, total |-> 0,
     deleted |-> FALSE]
CreateArtist(table, email) ==
    table @@ (Cardinality(DOMAIN table) + 1 :>
                 NewArtist(Cardinality(DOMAIN table) + 1, email))

\* CreateArtistHandler up to db.Create: BodyParser, then the lookup
\* db.Where("email = ?", req.Email).First(&existingArtist)
CreateArtistCheck(r, body, table) ==
    IF ~body.ok THEN Reject(r, StatusBadRequest, "parse")
    ELSE LET b == [r EXCEPT !.body = body] IN
         IF ByEmail(table, body.email) # 0 THEN Reject(b, StatusConflict, "email_taken")
         ELSE Proceed(b, NoRow)

\* who sends a request to a route behind AuthMiddleware: role "" is a request
\* without a valid token, otherwise user_id and role are the token's claims
Callers ==
    {[uid |-> 0, role |-> ""]} \cup {[uid |-> u, role |-> r] : u \in UserIds, r \in Roles}

\* "role := models.RoleUser; if req.Role != "" { switch req.Role ..."
CreateRole(role) == IF role = "" THEN RoleUser ELSE role

\* the store the accounts start from: the first accounts exist, no followers;
\* the tables have room for two more rows each
InitAccounts ==
    /\ users = [u \in 1..(NumUsers - 2) |-> NewUser(u, InitRole(u), InitEmail(u), InitPassword(u))]
    /\ artists = [a \in 1..(NumArtists - 1) |->
                    [id |-> a, refUser |-> InitRef(a), email |-> InitArtistEmail(a),
                     followers |-> <<>>, total |-> 0, deleted |-> FALSE]]
    /\ req = [p \in Slots |-> NewReq]
    /\ client = NoClient
    /\ now = 0
    /\ tok = NoToken
    /\ call = NoCall

\* RegisterHandler up to db.Create
RegisterCheck(r, body, table) ==
    IF ~body.ok THEN Reject(r, StatusBadRequest, "parse")
    ELSE IF ~body.valid THEN Reject(r, StatusBadRequest, "field_required")
    ELSE LET b == [r EXCEPT !.body = body] IN
         IF ByEmail(table, body.email) # 0 THEN Reject(b, StatusConflict, "email_taken")
         ELSE IF body.hashErr THEN Reject(b, StatusInternalServerError, "hash_failed")
         ELSE Proceed(b, NoRow)

\* GoogleAuthHandler up to db.Create for a new email, up to db.Save for an
\* account with a picture to store, up to its 200 otherwise
GoogleAuthCheck(r, body, table) ==
    IF ~body.ok THEN Reject(r, StatusBadRequest, "parse")
    ELSE IF ~body.tokenValid THEN Reject(r, StatusUnauthorized, "google_token")
    ELSE IF body.email = "" THEN Reject(r, StatusBadRequest, "email_missing")
    ELSE LET b == [r EXCEPT !.body = body]
             owner == ByEmail(table, body.email)
         IN
         IF owner = 0 THEN Proceed(b, NoRow)
         ELSE IF body.picture THEN Proceed([b EXCEPT !.target = owner], table[owner])
         ELSE Finish(b, RespOK(table[owner]))

\* CreateUserHandler up to db.Create
CreateUserCheck(r, body, table) ==
    IF ~body.ok THEN Reject(r, StatusBadRequest, "parse")
    ELSE LET b == [r EXCEPT !.body = body] IN
         IF ByEmail(table, body.email) # 0 THEN Reject(b, StatusConflict, "email_taken")
         ELSE IF body.hashErr THEN Reject(b, StatusInternalServerError, "hash_failed")
         ELSE IF body.role \notin {"", RoleAdmin, RolePremium, RoleUser}
             THEN Reject(b, StatusBadRequest, "invalid_role")
         ELSE Proceed(b, NoRow)

\* POST /auth/register
RegisterHandler(p) ==
    /\ req[p].pc = "idle"
    /\ \E body \in RegisterBodies :
         req' = [req EXCEPT ![p] = RegisterCheck(Ctx("Register", 0, ""), body, users)]
    /\ UNCHANGED <<users, artists, client, authVars>>

\* POST /auth/google
GoogleAuthHandler(p) ==
    /\ req[p].pc = "idle"
    /\ \E body \in GoogleBodies :
         req' = [req EXCEPT ![p] = GoogleAuthCheck(Ctx("GoogleAuth", 0, ""), body, users)]
    /\ UNCHANGED <<users, artists, client, authVars>>

\* POST /users: AuthMiddleware, then CreateUserHandler
PostUser(p) ==
    /\ req[p].pc = "idle"
    /\ \E caller \in Callers, body \in CreateBodies :
         req' = [req EXCEPT ![p] =
                   IF caller.role = ""
                   THEN Reject(Ctx("CreateUser", 0, ""), StatusUnauthorized, "unauthorized")
                   ELSE CreateUserCheck(Ctx("CreateUser", caller.uid, caller.role), body, users)]
    /\ UNCHANGED <<users, artists, client, authVars>>

CreateKinds == {"Register", "GoogleAuth", "CreateUser"}

\* the role of the row a create request inserts
RoleOf(r) == IF r.kind = "CreateUser" THEN CreateRole(r.body.role) ELSE RoleUser

\* its password column: "Password: &hashedPasswordStr" of RegisterHandler and
\* CreateUserHandler, "Password: nil" of GoogleAuthHandler
PasswordOf(r) == IF r.kind = "GoogleAuth" THEN "" ELSE "hash"

\* db.Create(&user) of RegisterHandler, GoogleAuthHandler and
\* CreateUserHandler, and the answer after it: 500 when the statement fails on
\* the unique index of users.email or on a field longer than its column
CreateUserRow(p) ==
    /\ req[p].pc = "save"
    /\ req[p].kind \in CreateKinds
    /\ req[p].local = NoRow
    /\ LET r == req[p]
           row == NewUser(Cardinality(DOMAIN users) + 1, RoleOf(r), r.body.email,
                          PasswordOf(r))
       IN
       IF r.body.tooLong \/ Duplicate(users, 0, r.body.email)
       THEN /\ users' = users
            /\ req' = [req EXCEPT ![p] =
                          Finish(r, Resp(StatusInternalServerError, "create_failed"))]
       ELSE /\ Cardinality(DOMAIN users) < NumUsers
            /\ users' = Create(users, RoleOf(r), r.body.email, PasswordOf(r))
            /\ req' = [req EXCEPT ![p] =
                          Finish(r, IF r.kind = "GoogleAuth" THEN RespOK(row)
                                    ELSE RespCreated(row))]
    /\ UNCHANGED <<artists, client, authVars>>

\* "db.Save(&user)" of GoogleAuthHandler, its error ignored, then 200: the
\* statement fails as that of any db.Save does, and on a row soft-deleted
\* since the lookup it either replaces the row or fails
GoogleAuthSave(p) ==
    /\ req[p].pc = "save"
    /\ req[p].kind = "GoogleAuth"
    /\ req[p].local # NoRow
    /\ LET fails == \/ req[p].body.tooLong
                    \/ Duplicate(users, req[p].target, req[p].local.email)
       IN
       \/ ~fails /\ users' = SaveRow(users, req[p].target, req[p].local)
       \/ (fails \/ users[req[p].target].deleted) /\ users' = users
    /\ req' = [req EXCEPT ![p] = Finish(req[p], RespOK(req[p].local))]
    /\ UNCHANGED <<artists, client, authVars>>

\* PUT /users/:id: AuthMiddleware, then UpdateUserHandler from db.First up to
\* its next database call, the email lookup or db.Save
PutUser(p) ==
    /\ req[p].pc = "idle"
    /\ \E caller \in Callers, id \in UserIds, body \in UpdateBodies :
         req' = [req EXCEPT ![p] =
                   IF caller.role = ""
                   THEN Reject(Ctx("UpdateUser", 0, ""), StatusUnauthorized, "unauthorized")
                   ELSE UpdateUserCheck(Ctx("UpdateUser", caller.uid, caller.role),
                                        id, body, users)]
    /\ UNCHANGED <<users, artists, client, authVars>>

\* POST /artists: AuthMiddleware, then CreateArtistHandler up to db.Create
PostArtist(p) ==
    /\ req[p].pc = "idle"
    /\ \E caller \in Callers, body \in CreateArtistBodies :
         req' = [req EXCEPT ![p] =
                   IF caller.role = ""
                   THEN Reject(Ctx("CreateArtist", 0, ""), StatusUnauthorized, "unauthorized")
                   ELSE CreateArtistCheck(Ctx("CreateArtist", caller.uid, caller.role),
                                          body, artists)]
    /\ UNCHANGED <<users, artists, client, authVars>>

\* db.Create(&artist) of CreateArtistHandler and the answer after it: 500 when
\* the statement fails on a field longer than its column; artists.email has no
\* unique index, the insert of an email another row has succeeds
CreateArtistRow(p) ==
    /\ req[p].pc = "save"
    /\ req[p].kind = "CreateArtist"
    /\ LET r == req[p]
           row == NewArtist(Cardinality(DOMAIN artists) + 1, r.body.email)
       IN
       IF r.body.tooLong
       THEN /\ artists' = artists
            /\ req' = [req EXCEPT ![p] =
                          Finish(r, Resp(StatusInternalServerError, "create_failed"))]
       ELSE /\ Cardinality(DOMAIN artists) <= NumArtists
            /\ artists' = CreateArtist(artists, r.body.email)
            /\ req' = [req EXCEPT ![p] = Finish(r, RespCreated(row))]
    /\ UNCHANGED <<users, client, authVars>>

NextAccounts ==
    \E p \in Slots :
        \/ RegisterHandler(p)
        \/ PostArtist(p)
        \/ CreateArtistRow(p)
        \/ GoogleAuthHandler(p)
        \/ GoogleAuthSave(p)
        \/ PostUser(p)
        \/ CreateUserRow(p)
        \/ PutUser(p)
        \/ UpdateUserEmail(p)
        \/ DeleteUserHandler(p)
        \/ SaveUser(p)
        \/ SaveDeletedUser(p)
        \/ DeleteUserRow(p)

SpecAccounts == InitAccounts /\ [][NextAccounts]_vars

\* ------------------------------------------------- tokens and the guard
\* Time is counted in days from the start. In a header the token string is the
\* atom "jwt"; its segments are sent along with the header.

\* "time.Now().Add(30 * 24 * time.Hour)"
TokenTTL == 30

Emails == {"a@soundcave.id", "b@soundcave.id"}

\* "var jwtSecret = []byte(getJWTSecret())" with JWT_SECRET unset
jwtSecret == "your-secret-key-change-in-production"

\* json.Marshal(claims): the fields under the keys of their struct tags
Marshal(claims) ==
    [user_id |-> claims.uid, email |-> claims.email, role |-> claims.role,
     exp |-> claims.exp, iat |-> claims.iat, nbf |-> claims.nbf]

\* json.Unmarshal(payload, claims): the keys back into the fields
Unmarshal(payload) ==
    [uid |-> payload.user_id, email |-> payload.email, role |-> payload.role,
     exp |-> payload.exp, iat |-> payload.iat, nbf |-> payload.nbf]

\* SigningMethodHS256.Sign: the HMAC-SHA256 of "header.payload" under key, a
\* value that only the same key and the same two segments give
HS256(header, payload, key) == [key |-> key, header |-> header, payload |-> payload]

\* jwt.NewWithClaims(jwt.SigningMethodHS256, claims).SignedString(key)
SignedString(claims, key) ==
    LET header == [alg |-> "HS256", typ |-> "JWT"] IN
    [header |-> header, payload |-> Marshal(claims),
     signature |-> HS256(header, Marshal(claims), key)]

\* a token that carries role "user" whatever it was asked for
GenerateTokenRoleUser(userID, email, role, t) ==
    SignedString([uid |-> userID, email |-> email, role |-> RoleUser,
                  exp |-> t + TokenTTL, iat |-> t, nbf |-> t],
                 jwtSecret)

\* GenerateToken at instant t: the claims, signed HS256 with jwtSecret
GenerateToken(userID, email, role, t) ==
    SignedString([uid |-> userID, email |-> email, role |-> role,
                  exp |-> t + TokenTTL, iat |-> t, nbf |-> t],
                 jwtSecret)

\* a validation that does not look at the expiry
ValidateTokenNoExpiry(tokenString, jwt, t) ==
    IF /\ tokenString = <<"jwt">>
       /\ jwt.header.alg = "HS256"
       /\ jwt.signature = HS256(jwt.header, jwt.payload, jwtSecret)
       /\ Unmarshal(jwt.payload).nbf <= t
    THEN [err |-> FALSE, claims |-> Unmarshal(jwt.payload)]
    ELSE [err |-> TRUE, claims |-> NoClaims]

\* ValidateToken at instant t: jwt.ParseWithClaims with jwtSecret as the key.
\* The string must have its three segments, the alg of its header a signing
\* method that takes the key, the signature be that of the two segments under
\* jwtSecret; then the payload is read into Claims and jwt/v5 validates the
\* registered claims: now before exp, now not before nbf
ValidateToken(tokenString, jwt, t) ==
    IF tokenString # <<"jwt">> THEN [err |-> TRUE, claims |-> NoClaims]
    ELSE IF jwt.header.alg # "HS256" THEN [err |-> TRUE, claims |-> NoClaims]
    ELSE IF jwt.signature # HS256(jwt.header, jwt.payload, jwtSecret)
        THEN [err |-> TRUE, claims |-> NoClaims]
    ELSE IF Unmarshal(jwt.payload).nbf <= t /\ t < Unmarshal(jwt.payload).exp
        THEN [err |-> FALSE, claims |-> Unmarshal(jwt.payload)]
    ELSE [err |-> TRUE, claims |-> NoClaims]

\* the characters of an Authorization header: the space, and words without one
Atoms == {" ", "Bearer", "Basic", "jwt"}
Headers == UNION {[1..n -> Atoms] : n \in 0..MaxHeader}

\* c.Get("Authorization"): the header as a string; the token NoToken is the
\* empty string, its atoms add nothing to the header
Get(c) == SelectSeq(c.header, LAMBDA a : a # "jwt" \/ c.jwt # NoToken)

\* strings.Split(authHeader, " "): the runs between the spaces, empty runs kept
RECURSIVE Split(_)
Split(h) ==
    IF h = <<>> THEN << <<>> >>
    ELSE IF Head(h) = " " THEN << <<>> >> \o Split(Tail(h))
    ELSE << <<Head(h)>> \o Split(Tail(h))[1] >> \o Tail(Split(Tail(h)))

\* a 401 that says the same whatever went wrong
UnauthorizedOneMessage(c, msg) ==
    [c EXCEPT !.status = StatusUnauthorized, !.msg = "unauthorized", !.next = FALSE]

\* return c.Status(fiber.StatusUnauthorized).JSON(...): no c.Next(), c.Locals
\* left as they are
Unauthorized(c, msg) ==
    [c EXCEPT !.status = StatusUnauthorized, !.msg = msg, !.next = FALSE]

\* the guard without the test of the scheme word
AuthMiddlewareAnyScheme(c, t) ==
    IF Get(c) = <<>> THEN Unauthorized(c, "token_missing")
    ELSE IF Len(Split(Get(c))) # 2
        THEN Unauthorized(c, "token_format")
    ELSE LET v == ValidateToken(Split(Get(c))[2], c.jwt, t) IN
         IF v.err THEN Unauthorized(c, "token_invalid")
         ELSE [c EXCEPT !.locals = [user_id |-> v.claims.uid, email |-> v.claims.email,
                                    role |-> v.claims.role],
                        !.next = TRUE]

\* a guard that takes the Authorization header off the request once it has
\* read the token
AuthMiddlewareTakesHeader(c, t) ==
    IF Get(c) = <<>> THEN Unauthorized(c, "token_missing")
    ELSE IF Len(Split(Get(c))) # 2 \/ Split(Get(c))[1] # <<"Bearer">>
        THEN Unauthorized(c, "token_format")
    ELSE LET v == ValidateToken(Split(Get(c))[2], c.jwt, t) IN
         IF v.err THEN Unauthorized(c, "token_invalid")
         ELSE [c EXCEPT !.header = <<>>,
                        !.locals = [user_id |-> v.claims.uid, email |-> v.claims.email,
                                    role |-> v.claims.role],
                        !.next = TRUE]

\* a guard that looks the role up in the users table
AuthMiddlewareStoredRole(c, t) ==
    IF Get(c) = <<>> THEN Unauthorized(c, "token_missing")
    ELSE IF Len(Split(Get(c))) # 2 \/ Split(Get(c))[1] # <<"Bearer">>
        THEN Unauthorized(c, "token_format")
    ELSE LET v == ValidateToken(Split(Get(c))[2], c.jwt, t) IN
         IF v.err THEN Unauthorized(c, "token_invalid")
         ELSE [c EXCEPT !.locals = [user_id |-> v.claims.uid, email |-> v.claims.email,
                                    role |-> users[v.claims.uid].role],
                        !.next = TRUE]

\* AuthMiddleware on the context c at instant t: c.Get("Authorization"), the
\* split on the space, ValidateToken on the second part, then c.Locals and
\* c.Next(); status 0 with next: the answer is the next handler's
AuthMiddleware(c, t) ==
    IF Get(c) = <<>> THEN Unauthorized(c, "token_missing")
    ELSE IF Len(Split(Get(c))) # 2 \/ Split(Get(c))[1] # <<"Bearer">>
        THEN Unauthorized(c, "token_format")
    ELSE LET v == ValidateToken(Split(Get(c))[2], c.jwt, t) IN
         IF v.err THEN Unauthorized(c, "token_invalid")
         ELSE [c EXCEPT !.locals = [user_id |-> v.claims.uid, email |-> v.claims.email,
                                    role |-> v.claims.role],
                        !.next = TRUE]

\* the context of a request as it arrives at instant t, with the
\* Authorization header the server receives
Arrive(authHeader, jwt, t) ==
    [NoCall EXCEPT !.header = Get([header |-> authHeader, jwt |-> jwt]),
                   !.jwt = IF \E i \in DOMAIN authHeader : authHeader[i] = "jwt"
                           THEN jwt ELSE NoToken,
                   !.at = t]

\* a token an outsider makes from one it has seen: role admin, a later expiry,
\* signed with a key of its own
Forge(jwt) ==
    SignedString([Unmarshal(jwt.payload) EXCEPT !.role = RoleAdmin, !.exp = @ + TokenTTL],
                 "otherKey")

\* a token an outsider makes from one it has seen without signing: role admin
\* and a later expiry in the payload, the signature left as it was
Tamper(jwt) ==
    [jwt EXCEPT !.payload.role = RoleAdmin, !.payload.exp = @ + TokenTTL]

\* the instants at which something happens: the days tokens are issued on,
\* the day after, and the days from the eve of the first expiry
Instants == {t \in 0..MaxNow : t <= MaxIssue + 1 \/ t >= TokenTTL - 1}

\* time passes, to a later instant
Tick ==
    /\ \E t \in Instants : t > now /\ now' = t
    /\ UNCHANGED <<users, artists, req, client, tok, call>>

\* LoginHandler / GoogleAuthHandler hand out "token": GenerateToken(...)
IssueToken ==
    /\ tok = NoToken
    /\ now <= MaxIssue
    /\ \E userID \in UserIds, email \in Emails, role \in Roles :
          tok' = GenerateToken(userID, email, role, now)
    /\ UNCHANGED <<users, artists, req, client, now, call>>

\* a request arrives at a route behind AuthMiddleware
AuthRequest ==
    /\ call = NoCall
    /\ \E authHeader \in Headers, jwt \in {tok, Forge(tok), Tamper(tok)} :
          call' = AuthMiddleware(Arrive(authHeader, jwt, now), now)
    /\ UNCHANGED <<users, artists, req, client, now, tok>>

\* the response is sent and the request context released
Release ==
    /\ call # NoCall
    /\ call' = NoCall
    /\ UNCHANGED <<users, artists, req, client, now, tok>>

NextAuth ==
    \/ Tick
    \/ IssueToken
    \/ AuthRequest
    \/ Release

SpecAuth == InitFresh /\ [][NextAuth]_vars

\* ------------------------------------------------------- the admin gate
\* a gate that lets every role but "user" through
AdminMiddlewareNotUser(c) ==
    IF c.locals.role = RoleUser \/ c.locals.role = ""
    THEN [c EXCEPT !.status = StatusForbidden, !.msg = "admin_only"]
    ELSE [c EXCEPT !.admin = TRUE]

\* AdminMiddleware on the context c: "role := c.Locals("role")", nil (here "")
\* when no AuthMiddleware set it; 403 without c.Next() unless it is "admin"
AdminMiddleware(c) ==
    IF c.locals.role # "admin"
    THEN [c EXCEPT !.status = StatusForbidden, !.msg = "admin_only"]
    ELSE [c EXCEPT !.admin = TRUE]

\* a request reaches AdminMiddleware: on a route that has AuthMiddleware before
\* it, after that called c.Next(); or on a route that has the gate alone
AdminRequest ==
    /\ \/ call.next /\ call.status = 0 /\ ~call.admin
       \/ call = NoCall
    /\ call' = AdminMiddleware(call)
    /\ UNCHANGED <<users, artists, req, client, now, tok>>

\* the route's own AuthMiddleware, after the one of the "" group let the
\* request through: the same header is checked again, on the context the first
\* one left
AuthAgain ==
    /\ call.next /\ call.status = 0 /\ ~call.admin /\ ~call.again
    /\ call' = [AuthMiddleware(call, now) EXCEPT !.again = TRUE]
    /\ UNCHANGED <<users, artists, req, client, now, tok>>

\* the caller sends the request again, whatever AuthMiddleware answered the
\* first time: a new context with the same header, at keeping the instant the
\* request was first sent
AuthRetry ==
    /\ call # NoCall /\ call.status # StatusForbidden /\ ~call.admin
    /\ ~call.again /\ ~call.retry
    /\ call' = [AuthMiddleware(Arrive(call.header, call.jwt, call.at), now)
                  EXCEPT !.retry = TRUE]
    /\ UNCHANGED <<users, artists, req, client, now, tok>>

NextGuard ==
    \/ Tick
    \/ IssueToken
    \/ AuthRequest
    \/ AuthAgain
    \/ AdminRequest
    \/ Release

SpecGuard == InitFresh /\ [][NextGuard]_vars

\* the guard with callers that send a request a second time
NextRetry ==
    \/ Tick
    \/ IssueToken
    \/ AuthRequest
    \/ AuthAgain
    \/ AuthRetry
    \/ AdminRequest
    \/ Release

SpecRetry == InitFresh /\ [][NextRetry]_vars

\* ------------------------------------------------------------ the routes
\* The route stack SetupRoutes builds, in the order of registration. A group
\* made with a handler, Group(prefix, AuthMiddleware), registers the handler
\* as a middleware for every path under the prefix; a request walks the stack
\* from the top and runs each entry that matches until one does not call
\* c.Next().
Use(path) == [use |-> TRUE, method |-> "", path |-> path, handler |-> "AuthMiddleware"]
Route(method, path, handler) ==
    [use |-> FALSE, method |-> method, path |-> path, handler |-> handler]

\* the first SetupRoutes: the "" group and every resource group with AuthMiddleware
SetupRoutes1 ==
    << Route("POST", <<"api", "auth", "login">>, "LoginHandler"),
       Use(<<"api">>),
       Use(<<"api", "users">>),
       Route("GET", <<"api", "users", ":id">>, "GetUserHandler"),
       Route("PUT", <<"api", "users", ":id">>, "UpdateUserHandler"),
       Route("DELETE", <<"api", "users", ":id">>, "DeleteUserHandler"),
       Use(<<"api", "artists">>),
       Route("PUT", <<"api", "artists", ":id">>, "UpdateArtistHandler") >>

\* the second SetupRoutes: only the "" group with AuthMiddleware
SetupRoutes2 ==
    << Route("POST", <<"api", "auth", "login">>, "LoginHandler"),
       Use(<<"api">>),
       Route("GET", <<"api", "users", ":id">>, "GetUserHandler"),
       Route("PUT", <<"api", "users", ":id">>, "UpdateUserHandler"),
       Route("DELETE", <<"api", "users", ":id">>, "DeleteUserHandler"),
       Route("PUT", <<"api", "artists", ":id">>, "UpdateArtistHandler") >>

Builds == {SetupRoutes1, SetupRoutes2}

\* the requests sent: the routes above, the follow route, which no SetupRoutes
\* registers, and a path no route has
ServerRequests ==
    {[method |-> "POST", path |-> <<"api", "auth", "login">>],
     [method |-> "GET", path |-> <<"api", "users", ":id">>],
     [method |-> "PUT", path |-> <<"api", "users", ":id">>],
     [method |-> "DELETE", path |-> <<"api", "users", ":id">>],
     [method |-> "PUT", path |-> <<"api", "artists", ":id">>],
     [method |-> "POST", path |-> <<"api", "users", "follow">>],
     [method |-> "GET", path |-> <<"api", "nowhere">>]}

ServerHeaders == {<<>>, <<"Bearer", " ", "jwt">>}

\* a route's path matches a request path segment by segment, the parameter
\* ":id" matching any one segment
PathMatches(pattern, path) ==
    /\ Len(pattern) = Len(path)
    /\ \A i \in 1..Len(pattern) : pattern[i] = ":id" \/ pattern[i] = path[i]

\* a middleware matches the paths that are exactly its prefix
MatchesExact(e, r) ==
    IF e.use THEN r.path = e.path
    ELSE e.method = r.method /\ PathMatches(e.path, r.path)

\* a middleware entry matches every path that starts with its prefix, a route
\* entry its method and path
Matches(e, r) ==
    IF e.use
    THEN Len(e.path) <= Len(r.path) /\ SubSeq(r.path, 1, Len(e.path)) = e.path
    ELSE e.method = r.method /\ PathMatches(e.path, r.path)

\* the router's methodExist: a route of another method matches the path
MethodExist(stack, r) ==
    \E i \in 1..Len(stack) :
        ~stack[i].use /\ stack[i].method # r.method /\ PathMatches(stack[i].path, r.path)

\* the request r with context c walks the stack at instant t: c as the
\* middlewares leave it, and the handler reached ("" if a middleware answered
\* or no route matched)
RECURSIVE Serve(_, _, _, _)
Serve(stack, r, c, t) ==
    IF stack = <<>> THEN [c |-> c, handler |-> ""]
    ELSE IF ~Matches(Head(stack), r) THEN Serve(Tail(stack), r, c, t)
    ELSE IF Head(stack).use
        THEN LET a == [AuthMiddleware(c, t) EXCEPT !.again = c.next] IN
             IF a.next THEN Serve(Tail(stack), r, a, t)
             ELSE [c |-> a, handler |-> ""]
    ELSE [c |-> c, handler |-> Head(stack).handler]

\* the router's answer to the request: where no route matched and the path is
\* one of another method's routes, the error is ErrMethodNotAllowed
Handler(stack, r, c, t) ==
    LET s == Serve(stack, r, c, t) IN
    IF s.handler = "" /\ s.c.status = 0 /\ MethodExist(stack, r)
    THEN [s EXCEPT !.handler = "ErrMethodNotAllowed"]
    ELSE s

\* LoginRequest with what bcrypt makes of it: the email, and whether the
\* password is the one that was hashed
LoginBodies ==
    {[ok |-> FALSE, email |-> "", match |-> FALSE]}
    \cup {[ok |-> TRUE, email |-> e, match |-> m] : e \in Addresses, m \in BOOLEAN}

\* a login that does not compare the password
LoginCheckNoCompare(body, table) ==
    LET owner == ByEmail(table, body.email) IN
    IF ~body.ok THEN Resp(StatusBadRequest, "parse")
    ELSE IF owner = 0 THEN Resp(StatusUnauthorized, "login_failed")
    ELSE IF table[owner].password = "" THEN Resp(StatusUnauthorized, "google_account")
    ELSE RespOK(table[owner])

\* LoginHandler up to GenerateToken: the answer
LoginCheck(body, table) ==
    LET owner == ByEmail(table, body.email) IN
    IF ~body.ok THEN Resp(StatusBadRequest, "parse")
    ELSE IF owner = 0 THEN Resp(StatusUnauthorized, "login_failed")
    ELSE IF table[owner].password = "" THEN Resp(StatusUnauthorized, "google_account")
    ELSE IF ~body.match THEN Resp(StatusUnauthorized, "login_failed")
    ELSE RespOK(table[owner])

\* the bodies sent to PUT /users/:id: no role field, or "role": "admin"; no
\* email field, or the new address; with or without a password field
ServerBodies ==
    {b \in UpdateBodies : b.role \in {"", RoleAdmin} /\ b.email \in {"", NewAddress}}

\* the ids in the path of the requests to /api/users/:id: an account with a
\* password hash and the account GoogleAuthHandler made
ServerIds == {NumUsers - 1, NumUsers}

\* GetUserHandler
GetUserCheck(r, id, table) ==
    LET q == [r EXCEPT !.target = id] IN
    IF ~Found(table, UserIds, id) THEN Reject(q, StatusNotFound, "not_found")
    ELSE Finish(q, RespOK(table[id]))

\* the handler the request reached starts, with c.Locals as the middlewares set them
Dispatch(p, s) ==
    LET uid == s.c.locals.user_id
        role == s.c.locals.role
    IN
    IF s.c.status # 0
        THEN /\ req' = [req EXCEPT ![p] = Reject(Ctx("", 0, ""), s.c.status, s.c.msg)]
             /\ tok' = tok
    ELSE IF s.handler = "LoginHandler"
        THEN /\ now <= MaxIssue
             /\ \E body \in LoginBodies :
                  /\ req' = [req EXCEPT ![p] =
                               Finish([Ctx("Login", 0, "") EXCEPT
                                          !.target = ByEmail(users, body.email),
                                          !.body = body],
                                      LoginCheck(body, users))]
                  /\ tok' = IF LoginCheck(body, users).code = StatusOK
                            THEN LET user == users[ByEmail(users, body.email)] IN
                                 GenerateToken(user.id, user.email, user.role, now)
                            ELSE tok
    ELSE IF s.handler = "GetUserHandler"
        THEN /\ \E id \in ServerIds :
                  req' = [req EXCEPT ![p] = GetUserCheck(Ctx("GetUser", uid, role), id, users)]
             /\ tok' = tok
    ELSE IF s.handler = "UpdateUserHandler"
        THEN /\ \E id \in ServerIds, body \in ServerBodies :
                  req' = [req EXCEPT ![p] =
                            UpdateUserCheck(Ctx("UpdateUser", uid, role), id, body, users)]
             /\ tok' = tok
    ELSE IF s.handler = "DeleteUserHandler"
        THEN /\ \E id \in ServerIds :
                  req' = [req EXCEPT ![p] =
                            DeleteCheck(Ctx("DeleteUser", uid, role), id, users, UserIds)]
             /\ tok' = tok
    ELSE IF s.handler = "UpdateArtistHandler"
        THEN /\ \E id \in ArtistIds, body \in ArtistBodies :
                  req' = [req EXCEPT ![p] =
                            UpdateArtistCheck(Ctx("UpdateArtist", uid, role), id, body, artists)]
             /\ tok' = tok
    ELSE IF s.handler = "ErrMethodNotAllowed"
        THEN /\ req' = [req EXCEPT ![p] = Reject(Ctx("", uid, role), 405, "method_not_allowed")]
             /\ tok' = tok
    ELSE /\ req' = [req EXCEPT ![p] = Reject(Ctx("", uid, role), StatusNotFound, "no_route")]
         /\ tok' = tok

\* a request arrives at the server, passes the middlewares of its route and
\* reaches its handler, which runs up to its db.Save or db.Delete
ServerRequest(p) ==
    /\ req[p].pc = "idle"
    /\ \E stack \in Builds, r \in ServerRequests, authHeader \in ServerHeaders,
          jwt \in {tok, Forge(tok)} :
         LET s == Handler(stack, r, Arrive(authHeader, jwt, now), now)
         IN /\ call' = s.c
            /\ Dispatch(p, s)
    /\ UNCHANGED <<users, artists, client, now>>

\* the response is written, the request and its context are over
Respond(p) ==
    /\ req[p].pc = "done"
    /\ req' = [req EXCEPT ![p] = NewReq]
    /\ call' = NoCall
    /\ UNCHANGED <<users, artists, client, now, tok>>

\* one request at a time
NextServer ==
    \/ Tick
    \/ ServerRequest(1)
    \/ UpdateUserEmail(1)
    \/ UpdateArtistEmail(1)
    \/ SaveUser(1)
    \/ DeleteUserRow(1)
    \/ SaveArtist(1)
    \/ Respond(1)

SpecServer == InitFresh /\ [][NextServer]_vars

\* ---------------------------------------------------- sequential caller
\* One fan with role "user" sends Follow and Unfollow requests for one record,
\* each after the answer to the previous one, and looks at the record (GET
\* /users/:id, GET /artists/:id) before the first and after every answer.

\* the follower columns of the row a GET returns
View(row) == [followers |-> row.followers, total |-> row.total]

InitSeq ==
    /\ InitStore
    /\ now = 0
    /\ tok = NoToken
    /\ call = NoCall
    /\ \E uid \in UserIds, table \in {"users", "artists"} :
          \E target \in IF table = "users" THEN UserIds ELSE ArtistIds :
              client = [uid |-> uid, table |-> table, target |-> target,
                        start |-> View(IF table = "users" THEN users[target]
                                                          ELSE artists[target]),
                        log |-> <<>>]

\* POST follow: FollowUserHandler or FollowArtistHandler up to db.Save
ClientFollow ==
    /\ Len(client.log) < NumCalls
    /\ req[1].pc = "idle"
    /\ req' = [req EXCEPT ![1] =
                  IF client.table = "users"
                  THEN FollowUserCheck(Ctx("FollowUser", client.uid, RoleUser),
                                       [ok |-> TRUE, target |-> client.target], users)
                  ELSE FollowArtistCheck(Ctx("FollowArtist", client.uid, RoleUser),
                                         client.target, artists)]
    /\ UNCHANGED <<users, artists, client, authVars>>

\* POST unfollow: UnfollowUserHandler or UnfollowArtistHandler up to db.Save
ClientUnfollow ==
    /\ Len(client.log) < NumCalls
    /\ req[1].pc = "idle"
    /\ req' = [req EXCEPT ![1] =
                  IF client.table = "users"
                  THEN UnfollowUserCheck(Ctx("UnfollowUser", client.uid, RoleUser),
                                         [ok |-> TRUE, target |-> client.target], users)
                  ELSE UnfollowArtistCheck(Ctx("UnfollowArtist", client.uid, RoleUser),
                                           client.target, artists)]
    /\ UNCHANGED <<users, artists, client, authVars>>

\* the answer arrives; the caller notes it with the record as it is now
ClientReceive ==
    /\ req[1].pc = "done"
    /\ client' = [client EXCEPT !.log =
                     Append(@, [kind |-> req[1].kind, resp |-> req[1].resp,
                                view |-> View(IF client.table = "users"
                                              THEN users[client.target]
                                              ELSE artists[client.target])])]
    /\ req' = [req EXCEPT ![1] = NewReq]
    /\ UNCHANGED <<users, artists, authVars>>

NextSeq ==
    \/ ClientFollow
    \/ ClientUnfollow
    \/ SaveUser(1)
    \/ SaveArtist(1)
    \/ ClientReceive

SpecSeq == InitSeq /\ [][NextSeq]_vars

\* ---------------------------------------------------------------- claims
ToSet(f) == {f[i] : i \in DOMAIN f}
Lists(f, s) == s \in ToSet(f)
Present(table, ids, id) == id \in ids /\ table[id].deleted = FALSE
FollowableRole(role) == role \in {"independent", "label"}
NoRepeat(f) == \A i, j \in DOMAIN f : f[i] = f[j] => i = j
RowOf(us, as, kind, id) == IF kind \in UserKinds THEN us[id] ELSE as[id]
FollowKinds == {"FollowUser", "FollowArtist"}
UnfollowKinds == {"UnfollowUser", "UnfollowArtist"}
Succeeded(r) == r.pc = "done" /\ r.resp.code = StatusOK

\* the request is a Follow by a role-"user" fan other than the target identity
ValidFollow(r) ==
    /\ r.kind \in FollowKinds
    /\ r.role = RoleUser
    /\ r.kind = "FollowUser" => r.target # r.uid /\ FollowableRole(InitRole(r.target))
    /\ r.kind = "FollowArtist" => InitRef(r.target) # r.uid

\* C1: on a fresh store, when two Follow requests by distinct role-"user" fans
\* on the same followable target have both completed, both have succeeded, the
\* target's follower list holds exactly the two fans and its count is 2
C1_TwoFollowsBothCounted ==
    \A p, q \in Slots :
        ( /\ p # q
          /\ req[p].pc = "done" /\ req[q].pc = "done"
          /\ ValidFollow(req[p]) /\ ValidFollow(req[q])
          /\ req[p].kind = req[q].kind
          /\ req[p].target = req[q].target
          /\ req[p].uid # req[q].uid )
        => LET row == RowOf(users, artists, req[p].kind, req[p].target) IN
           /\ Succeeded(req[p]) /\ Succeeded(req[q])
           /\ ToSet(row.followers) = {Sprintf(req[p].uid), Sprintf(req[q].uid)}
           /\ row.total = 2

\* C2: when only Follow and Unfollow requests ran and all have completed, the
\* effect of every successful one is in the persisted row: a fan whose Follow
\* succeeded (and who sent no Unfollow) is in the list, a fan whose Unfollow
\* succeeded (and who sent no Follow) is not
C2_FollowUnfollowSerialized ==
    ( \A p \in Slots : req[p].pc = "done" /\ req[p].kind \in FollowKinds \cup UnfollowKinds )
    => \A p \in Slots :
          LET r == req[p]
              row == RowOf(users, artists, r.kind, r.target)
              alone == \A q \in Slots \ {p} :
                          Succeeded(req[q]) /\ req[q].target = r.target
                              => req[q].uid # r.uid
          IN  Succeeded(r) /\ alone
                 => /\ r.kind \in FollowKinds => Lists(row.followers, Sprintf(r.uid))
                    /\ r.kind \in UnfollowKinds => ~Lists(row.followers, Sprintf(r.uid))

\* C3: every persisted row's total_follower equals the length of its followers list
C3_CountIsCardinality ==
    /\ \A u \in UserIds : users[u].total = Len(users[u].followers)
    /\ \A a \in ArtistIds : artists[a].total = Len(artists[a].followers)

\* a Follow and a profile update of the same row, one that changed the email
\* after its email lookup, have both been saved, the row holding two followers
C3_Witness ==
    \E p, q \in Slots :
        /\ Succeeded(req[p]) /\ req[p].kind = "FollowUser"
        /\ Succeeded(req[q]) /\ req[q].kind = "UpdateUser"
        /\ req[q].body.email = NewAddress
        /\ req[p].target = req[q].target
        /\ users[req[p].target].total = 2
        /\ users[req[p].target].email = NewAddress

\* C4: no persisted followers list holds the same identifier twice
C4_NoDuplicateFollower ==
    /\ \A u \in UserIds : NoRepeat(users[u].followers)
    /\ \A a \in ArtistIds : NoRepeat(artists[a].followers)

\* two overlapping Follow requests by the same fan on the same target have both
\* been saved
C4_Witness ==
    \E p, q \in Slots :
        /\ p # q
        /\ Succeeded(req[p]) /\ Succeeded(req[q])
        /\ req[p].kind = "FollowUser" /\ req[q].kind = "FollowUser"
        /\ req[p].uid = req[q].uid /\ req[p].target = req[q].target
        /\ Lists(users[req[p].target].followers, Sprintf(req[p].uid))

\* the step in which slot p receives a request: the handler runs up to db.Save
Begins(p) == req[p].pc = "idle" /\ req'[p].pc # "idle"
\* the step in which slot p's db.Save or db.Delete runs
Writes(p) == req[p].pc = "save" /\ req'[p].pc = "done"
StoreUnchanged == users' = users /\ artists' = artists
Count(f, s) == Cardinality({i \in DOMAIN f : f[i] = s})

\* the Follow that begins in slot p meets the preconditions: fan role "user",
\* target found and not the fan; for a User target, target role followable
MeetsFollowPre(r, us, as) ==
    /\ r.kind \in FollowKinds
    /\ r.role = RoleUser
    /\ r.kind = "FollowUser" =>
          /\ r.target \in UserIds /\ r.target # r.uid
          /\ Present(us, UserIds, r.target) /\ FollowableRole(us[r.target].role)
    /\ r.kind = "FollowArtist" => Present(as, ArtistIds, r.target)

\* C5: a Follow by a role-"user" fan on an existing followable target that
\* does not list the fan proceeds to the save, and its save, the stored row
\* being the row it read, answers 200, appends the fan once after the previous followers and adds one
\* to the count
C5_SingleFollowAppends ==
    [][\A p \in Slots :
        /\ ( /\ Begins(p)
             /\ MeetsFollowPre(req'[p], users, artists)
             /\ ~Lists(RowOf(users, artists, req'[p].kind, req'[p].target).followers,
                          Sprintf(req'[p].uid)) )
           => req'[p].pc = "save"
        /\ ( /\ Writes(p)
             /\ req[p].kind \in FollowKinds
             /\ req[p].role = RoleUser
             /\ ~RowOf(users, artists, req[p].kind, req[p].target).deleted
             /\ RowOf(users, artists, req[p].kind, req[p].target) = req[p].local )
           => LET old == RowOf(users, artists, req[p].kind, req[p].target)
                  new == RowOf(users', artists', req[p].kind, req[p].target)
              IN  /\ req'[p].resp.code = StatusOK
                  /\ new.followers = old.followers \o <<Sprintf(req[p].uid)>>
                  /\ Count(new.followers, Sprintf(req[p].uid)) = 1
                  /\ new.total = old.total + 1
                  /\ req'[p].resp.total = new.total
      ]_vars

\* a Follow has been saved on a row that already had a follower, who is still listed
C5_Witness ==
    \E p \in Slots :
        /\ Succeeded(req[p]) /\ req[p].kind = "FollowUser" /\ req[p].role = RoleUser
        /\ Len(users[req[p].target].followers) = 2
        /\ users[req[p].target].followers[2] = Sprintf(req[p].uid)
        /\ users[req[p].target].total = 2

\* C6: a Follow(I, T) that arrives after a Follow(I, T) succeeded, with I still
\* listed on the existing followable T, is answered 409 "already following"
\* and writes nothing
C6_SecondFollowConflicts ==
    [][\A q \in Slots :
        ( /\ Begins(q)
          /\ MeetsFollowPre(req'[q], users, artists)
          /\ \E p \in Slots \ {q} :
                /\ Succeeded(req[p]) /\ req[p].kind = req'[q].kind
                /\ req[p].uid = req'[q].uid /\ req[p].target = req'[q].target
          /\ Lists(RowOf(users, artists, req'[q].kind, req'[q].target).followers,
                      Sprintf(req'[q].uid)) )
        => /\ req'[q].pc = "done"
           /\ req'[q].resp = Resp(StatusConflict, "already_following")
           /\ StoreUnchanged
      ]_vars

\* the first Follow succeeded, the second was answered 409, the fan is listed once
C6_Witness ==
    \E p, q \in Slots :
        /\ p # q
        /\ req[p].kind = "FollowUser" /\ Succeeded(req[p])
        /\ req[q].kind = "FollowUser" /\ req[q].pc = "done"
        /\ req[q].resp.code = StatusConflict
        /\ req[p].uid = req[q].uid /\ req[p].target = req[q].target
        /\ Count(users[req[p].target].followers, Sprintf(req[p].uid)) = 1
        /\ users[req[p].target].total = 1

\* C7: an Unfollow(I, T) on an existing T that does not list I is answered 400
\* "not following" and writes nothing
C7_UnfollowNotFollowing ==
    [][\A p \in Slots :
        ( /\ Begins(p)
          /\ req'[p].kind \in UnfollowKinds
          /\ req'[p].role = RoleUser
          /\ req'[p].kind = "UnfollowUser" => Present(users, UserIds, req'[p].target)
          /\ req'[p].kind = "UnfollowArtist" => Present(artists, ArtistIds, req'[p].target)
          /\ ~Lists(RowOf(users, artists, req'[p].kind, req'[p].target).followers,
                       Sprintf(req'[p].uid)) )
        => /\ req'[p].pc = "done"
           /\ req'[p].resp = Resp(StatusBadRequest, "not_following")
           /\ StoreUnchanged
      ]_vars

\* an Unfollow by a fan who is not listed was refused while another fan is listed
C7_Witness ==
    \E p \in Slots :
        /\ req[p].kind = "UnfollowUser" /\ req[p].pc = "done"
        /\ req[p].resp = Resp(StatusBadRequest, "not_following")
        /\ users[req[p].target].followers # <<>>
        /\ users[req[p].target].total = 1

\* C8: no followable entity lists the identity it represents: no user row lists
\* its own id, no artist row lists its ref_user_id
C8_NeverFollowsItself ==
    /\ \A u \in UserIds : ~Lists(users[u].followers, Sprintf(u))
    /\ \A a \in ArtistIds :
          artists[a].refUser # 0 => ~Lists(artists[a].followers, Sprintf(artists[a].refUser))

\* C9: a Follow or Unfollow request that succeeded, on a User or an Artist
\* record, came from a caller whose role is "user"
C9_OnlyRoleUserFollows ==
    \A p \in Slots :
        Succeeded(req[p]) /\ req[p].kind \in FollowKinds \cup UnfollowKinds
            => req[p].role = "user"

\* C10: a Follow on a User target that is missing or soft-deleted is answered
\* 404, one on a target whose stored role is user, admin or premium is answered
\* 400, neither writes; a Follow that reaches its save found the target with
\* role independent or label, and the row it saves has such a role
C10_TargetMustBeFollowable ==
    [][\A p \in Slots :
        /\ ( /\ Begins(p)
             /\ req'[p].kind = "FollowUser"
             /\ req'[p].target \in UserIds /\ req'[p].target # req'[p].uid )
           => LET t == req'[p].target IN
              /\ ~Present(users, UserIds, t)
                    => /\ req'[p].pc = "done"
                       /\ req'[p].resp = Resp(StatusNotFound, "not_found")
              /\ Present(users, UserIds, t) /\ ~FollowableRole(users[t].role)
                    => /\ req'[p].pc = "done"
                       /\ req'[p].resp = Resp(StatusBadRequest, "target_role")
              /\ req'[p].pc = "save"
                    => Present(users, UserIds, t) /\ FollowableRole(users[t].role)
              /\ StoreUnchanged
        /\ ( Writes(p) /\ req[p].kind = "FollowUser" /\ req'[p].resp.code = StatusOK )
           => FollowableRole(users'[req[p].target].role)
      ]_vars

\* a Follow on a soft-deleted user was answered 404 and one on a user whose
\* role had been set to premium would be answered 400: here the former
C10_Witness ==
    \E p, q \in Slots :
        /\ req[q].kind = "DeleteUser" /\ Succeeded(req[q])
        /\ req[p].kind = "FollowUser" /\ req[p].pc = "done"
        /\ req[p].target = req[q].target
        /\ req[p].resp = Resp(StatusNotFound, "not_found")
        /\ users[req[p].target].deleted

\* C11: the save of a successful Unfollow(I, T) leaves T's persisted list
\* without I and T's persisted count equal to the length of that list; when the
\* stored row is the row the request read and lists I once, the other
\* followers stay and the count is the previous count minus one
C11_UnfollowRemoves ==
    [][\A p \in Slots :
        ( /\ Writes(p)
          /\ req[p].kind \in UnfollowKinds
          /\ req'[p].resp.code = StatusOK )
        => LET old == RowOf(users, artists, req[p].kind, req[p].target)
               new == RowOf(users', artists', req[p].kind, req[p].target)
               fan == Sprintf(req[p].uid)
           IN  /\ ~Lists(new.followers, fan)
               /\ new.total = Len(new.followers)
               /\ ( old = req[p].local /\ Count(old.followers, fan) = 1 )
                     => /\ new.total = old.total - 1
                        /\ ToSet(new.followers) = ToSet(old.followers) \ {fan}
      ]_vars

\* an Unfollow has been saved on a row that listed two fans; the other fan is
\* still listed and the count is 1
C11_Witness ==
    \E p \in Slots :
        /\ Succeeded(req[p]) /\ req[p].kind = "UnfollowUser"
        /\ Len(users[req[p].target].followers) = 1
        /\ ~Lists(users[req[p].target].followers, Sprintf(req[p].uid))
        /\ users[req[p].target].total = 1
        /\ req[p].resp.total = 1

\* C13: the 200 answer of a Follow or an Unfollow carries the target's id and
\* a total_follower equal to the length of the followers list its save persisted
C13_ResponseCarriesCount ==
    [][\A p \in Slots :
        ( /\ Writes(p)
          /\ req[p].kind \in FollowKinds \cup UnfollowKinds
          /\ req'[p].resp.code = StatusOK )
        => /\ req'[p].resp.id = req[p].target
           /\ req'[p].resp.total =
                 Len(RowOf(users', artists', req[p].kind, req[p].target).followers)
      ]_vars

\* a Follow of an artist that already had a follower was answered 200 with the
\* artist's id and total_follower 2
C13_Witness ==
    \E p \in Slots :
        /\ Succeeded(req[p]) /\ req[p].kind = "FollowArtist"
        /\ req[p].resp.id = req[p].target
        /\ req[p].resp.total = 2
        /\ Len(artists[req[p].target].followers) = 2

\* C14: when a profile update and a Follow or Unfollow of the same entity
\* have both been answered 200 (no other request having run), the followers
\* list is the one the Follow or Unfollow produced: the fan of the Follow is
\* listed, the fan of the Unfollow is not
C14_UpdateKeepsFollowers ==
    \A p, q \in Slots :
        ( /\ Succeeded(req[p]) /\ req[p].kind \in {"UpdateUser", "UpdateArtist"}
          /\ Succeeded(req[q]) /\ req[q].kind \in FollowKinds \cup UnfollowKinds
          /\ (req[p].kind \in UserKinds) = (req[q].kind \in UserKinds)
          /\ req[p].target = req[q].target )
        => LET row == RowOf(users, artists, req[q].kind, req[q].target) IN
           /\ req[q].kind \in FollowKinds => Lists(row.followers, Sprintf(req[q].uid))
           /\ req[q].kind \in UnfollowKinds => ~Lists(row.followers, Sprintf(req[q].uid))

\* what the sequential caller saw before its i-th request
ViewBefore(c, i) == IF i = 1 THEN c.start ELSE c.log[i - 1].view
IsFollow(e) == e.kind \in FollowKinds
IsUnfollow(e) == e.kind \in UnfollowKinds

\* C12: for a role-"user" fan I and a followable record T other than I that
\* does not list I, the sequential requests Follow, Follow, Unfollow, Unfollow
\* are answered 200, 409 "already following", 200, 400 "not following"; and an
\* Unfollow right after a successful Follow is answered 200 and leaves
\* followers and count as they were before the Follow
C12_FollowUnfollowSequence ==
    LET c == client
        n == Len(c.log)
        fan == Sprintf(c.uid)
    IN  ( c.table = "users" => c.target # c.uid /\ FollowableRole(users[c.target].role) )
        => /\ \A i \in 1..n :
                 ( /\ i + 3 <= n
                   /\ IsFollow(c.log[i]) /\ IsFollow(c.log[i + 1])
                   /\ IsUnfollow(c.log[i + 2]) /\ IsUnfollow(c.log[i + 3])
                   /\ ~Lists(ViewBefore(c, i).followers, fan) )
                 => /\ c.log[i].resp.code = StatusOK
                    /\ c.log[i + 1].resp = Resp(StatusConflict, "already_following")
                    /\ c.log[i + 1].view = c.log[i].view
                    /\ c.log[i + 2].resp.code = StatusOK
                    /\ c.log[i + 3].resp = Resp(StatusBadRequest, "not_following")
           /\ \A i \in 1..n :
                 ( /\ i + 1 <= n
                   /\ IsFollow(c.log[i]) /\ c.log[i].resp.code = StatusOK
                   /\ IsUnfollow(c.log[i + 1]) )
                 => /\ c.log[i].view.followers = ViewBefore(c, i).followers \o <<fan>>
                    /\ c.log[i].view.total = ViewBefore(c, i).total + 1
                    /\ c.log[i + 1].resp.code = StatusOK
                    /\ c.log[i + 1].view = ViewBefore(c, i)

\* the four requests were answered 200, 409, 200, 400 on a user who had
\* another follower before, and has that follower alone again
C12_Witness ==
    /\ client.table = "users"
    /\ Len(client.log) = 4
    /\ client.start.total = 1
    /\ client.log[1].resp.code = StatusOK /\ client.log[1].view.total = 2
    /\ client.log[2].resp.code = StatusConflict
    /\ client.log[3].resp.code = StatusOK /\ client.log[3].view = client.start
    /\ client.log[4].resp.code = StatusBadRequest
    /\ users[client.target].followers = client.start.followers

RoleNames == {"user", "admin", "premium", "independent", "label"}
AcceptedRoleFields == {"", "user", "admin", "premium"}
Accepted(r) == r.pc = "save" \/ (r.pc = "done" /\ r.resp.code < 400)
\* a step of a handler before its write: on arrival, or from the email lookup
\* of UpdateUserHandler
Checks(p) == req[p].pc \in {"idle", "lookup"} /\ req'[p].pc # req[p].pc

\* C15: every persisted role is user, admin, premium, independent or label;
\* a CreateUserHandler or UpdateUserHandler request is accepted only with a
\* role field that is absent or user, admin or premium, and a request that is
\* answered with an error before its write leaves the users table as it was
C15_RolesStayInEnumeration ==
    [][ /\ \A u \in DOMAIN users : users[u].role \in RoleNames
        /\ \A u \in DOMAIN users' : users'[u].role \in RoleNames
        /\ \A p \in Slots :
              /\ ( /\ Checks(p)
                   /\ req'[p].kind \in {"CreateUser", "UpdateUser"}
                   /\ Accepted(req'[p]) )
                 => req'[p].body.role \in AcceptedRoleFields
              /\ ( /\ Checks(p)
                   /\ req'[p].kind \in {"CreateUser", "UpdateUser", "Register", "GoogleAuth"}
                   /\ req'[p].pc = "done" /\ req'[p].resp.code >= 400 )
                 => users' = users
      ]_vars

\* a create with role "superuser" was answered 400 and created nothing, and an
\* update with an email field, after its email lookup, set a role to admin
C15_Witness ==
    \E p, q \in Slots :
        /\ req[p].kind = "CreateUser" /\ req[p].body.role = "superuser"
        /\ req[p].resp = Resp(StatusBadRequest, "invalid_role")
        /\ req[q].kind = "UpdateUser" /\ Succeeded(req[q])
        /\ req[q].body.role = "admin" /\ req[q].body.email = NewAddress
        /\ users[req[q].target].role = "admin"
        /\ users[req[q].target].email = NewAddress
        /\ InitRole(req[q].target) # "admin"
        /\ DOMAIN users = 1..(NumUsers - 2)

\* C16: the db.Save of an UpdateUserHandler request that carries a role field
\* changes the stored role only when the caller's role is admin
C16_RoleChangeAdminOnly ==
    [][\A p \in Slots :
        ( /\ Writes(p)
          /\ req[p].kind = "UpdateUser"
          /\ req[p].body.role # ""
          /\ users'[req[p].target].role # users[req[p].target].role )
        => req[p].role = "admin"
      ]_vars

\* C17: a CreateUserHandler request that created an account came from a
\* caller whose role is admin
C17_CreateUserAdminOnly ==
    \A p \in Slots :
        req[p].kind = "CreateUser" /\ req[p].pc = "done" /\ req[p].resp.code = StatusCreated
            => req[p].role = "admin"

ThirtyDays == 30
BearerJwt == <<"Bearer", " ", "jwt">>
Spaces(h) == Cardinality({i \in DOMAIN h : h[i] = " "})
\* exactly one space, and "Bearer" is all that comes before it
BearerShape(h) == Spaces(h) = 1 /\ Len(h) >= 2 /\ h[1] = "Bearer" /\ h[2] = " "
Rejected401(c) == c.status = 401 /\ ~c.next /\ c.locals = NoLocals
\* the signature of the token string is the server's, over the string's own
\* header and payload
Signed(jwt) ==
    /\ jwt.signature.key = "your-secret-key-change-in-production"
    /\ jwt.signature.header = jwt.header /\ jwt.signature.payload = jwt.payload

\* C18: a request whose Authorization header is empty, or is not "Bearer",
\* one space, and a part without a space, is answered 401 by AuthMiddleware
\* with no c.Next() and no user_id, email or role set
C18_MalformedHeaderRejected ==
    ( call # NoCall /\ ~BearerShape(call.header) ) => Rejected401(call)

\* a genuine unexpired token sent with the scheme Basic was refused as a
\* format error
C18_Witness ==
    /\ call.header = <<"Basic", " ", "jwt">>
    /\ call.jwt = tok /\ Signed(tok) /\ now < tok.payload.exp
    /\ call.status = 401 /\ call.msg = "token_format"
    /\ ~call.next

\* C19: a token is issued with not-before = issued-at = the instant of issue
\* and expiry thirty days later; a request with a well-formed header is let
\* through only at an instant from the token's not-before to its expiry, and
\* after the expiry a token signed by the server is answered 401
C19_TokenValidityWindow ==
    [][ /\ tok' # tok
            => /\ tok'.payload.nbf = now /\ tok'.payload.iat = now
               /\ tok'.payload.exp = now + ThirtyDays
        /\ ( call = NoCall /\ call' # NoCall )
            => /\ call'.next => /\ call'.jwt.payload.nbf <= now
                                /\ now <= call'.jwt.payload.exp
               /\ ( call'.jwt # NoToken /\ now > call'.jwt.payload.exp )
                     => Rejected401(call')
      ]_vars

\* the server's own token, sent in a well-formed header after its expiry, was
\* answered 401
C19_Witness ==
    /\ call.header = BearerJwt
    /\ call.jwt = tok /\ Signed(tok)
    /\ now > tok.payload.exp
    /\ call.status = 401 /\ call.msg = "token_invalid"

GateActed == (call'.admin /\ ~call.admin) \/ (call'.status = 403 /\ call.status # 403)

\* C21: AdminMiddleware calls c.Next() only when the role in c.Locals is
\* "admin"; for user, premium, independent, label and for a context without a
\* role it answers 403 and does not call c.Next()
C21_AdminGateOnlyAdmin ==
    [][ GateActed =>
          /\ call'.admin <=> call.locals.role = "admin"
          /\ call.locals.role \in {"user", "premium", "independent", "label", ""}
                => call'.status = 403 /\ ~call'.admin
          /\ call'.locals = call.locals
      ]_vars

\* a premium caller's token passed AuthMiddleware and was refused by the gate
C21_Witness ==
    /\ call.next /\ call.jwt = tok
    /\ call.locals.role = "premium" /\ tok.payload.role = "premium"
    /\ call.status = 403 /\ ~call.admin

\* the four answers of the guard, status and message
NoCredential == <<401, "token_missing">>
MalformedCredential == <<401, "token_format">>
InvalidToken == <<401, "token_invalid">>
InsufficientRole == <<403, "admin_only">>
GuardFailures == {NoCredential, MalformedCredential, InvalidToken, InsufficientRole}
Answer(c) == <<c.status, c.msg>>
ServerToken(jwt, t) ==
    /\ jwt # NoToken /\ jwt.header.alg = "HS256" /\ Signed(jwt)
    /\ jwt.payload.nbf <= t /\ t < jwt.payload.exp

\* C22: the four failures of the guard have four different answers (status
\* and message): no header, a malformed header, a token that is expired or not
\* signed by the server or garbled, and a role that is not admin; a request the guard
\* rejects gets the one answer of its failure, and nothing is done on a
\* rejected request afterwards
C22_FailuresDistinguishable ==
    [][ /\ Cardinality(GuardFailures) = 4
        /\ ( call' # call /\ call'.status # 0 ) =>
              /\ call.status = 0
              /\ Answer(call') \in GuardFailures
              /\ ( call = NoCall /\ call'.status = 401 ) =>
                    /\ Answer(call') = NoCredential <=> call'.header = <<>>
                    /\ Answer(call') = MalformedCredential <=>
                          ( call'.header # <<>> /\ ~BearerShape(call'.header) )
                    /\ Answer(call') = InvalidToken <=>
                          ( /\ BearerShape(call'.header)
                            /\ ~( /\ SubSeq(call'.header, 3, Len(call'.header)) = <<"jwt">>
                                  /\ ServerToken(call'.jwt, now) ) )
              /\ call'.status = 403 =>
                    /\ Answer(call') = InsufficientRole
                    /\ call = NoCall \/ call.next
                    /\ call.locals.role # "admin"
        /\ call.status # 0 => ( call' = call \/ call' = NoCall )
      ]_vars

\* a token signed with another key was refused as an invalid token
C22_Witness ==
    /\ call.header = BearerJwt
    /\ call.jwt = Forge(tok) /\ tok # NoToken /\ now < tok.payload.exp
    /\ Answer(call) = InvalidToken

\* the outcome of the guard on a context: let through or not, the status and
\* message of the answer, and the user_id, email and role handed on
Outcome(c) == <<c.next, c.status, c.msg, c.locals>>

ResourceKinds == {"GetUser", "UpdateUser", "DeleteUser", "UpdateArtist"}

\* C24: a handler of the user and artist routes starts only on a request
\* whose credential AuthMiddleware accepted at that instant, with the token's
\* user_id and role as its identity; a request without a header or one the
\* guard answered starts no handler, and only a request with an identity
\* writes to users or artists
C24_HandlerBehindGuard ==
    [][ \A p \in Slots :
          /\ ( req[p].pc = "idle" /\ req'[p].kind \in ResourceKinds ) =>
                /\ call'.next /\ call'.status = 0
                /\ BearerShape(call'.header)
                /\ ServerToken(call'.jwt, now)
                /\ req'[p].uid = call'.jwt.payload.user_id
                /\ req'[p].role = call'.jwt.payload.role
          /\ ( req[p].pc = "idle" /\ req'[p].pc # "idle"
               /\ (call'.header = <<>> \/ call'.status # 0) ) =>
                /\ req'[p].kind \notin ResourceKinds
                /\ call'.status # 0 => req'[p].kind = "" /\ req'[p].resp.code = call'.status
                /\ users' = users /\ artists' = artists
          /\ ( Writes(p) /\ (users' # users \/ artists' # artists) ) =>
                req[p].kind \in ResourceKinds /\ req[p].uid # 0 /\ req[p].role # ""
      ]_vars

\* under the second SetupRoutes, where the /users group has no middleware of
\* its own, a delete went through on the server's token
C24_Witness ==
    /\ req[1].kind = "DeleteUser" /\ req[1].pc = "done" /\ req[1].resp.code = 200
    /\ users[req[1].target].deleted
    /\ call.next /\ ~call.again /\ call.jwt = tok
    /\ req[1].uid = tok.payload.user_id

\* C25: the token LoginHandler hands out carries the id, email and role of the
\* row at that instant, and whenever AuthMiddleware lets a request through,
\* user_id, email and role in c.Locals are those of the token, whatever the
\* role and deleted_at of the row have become since
C25_IdentityFromToken ==
    [][ /\ tok' # tok =>
              \E u \in UserIds :
                  tok' = GenerateToken(u, users[u].email, users[u].role, now)
        /\ call'.next =>
              /\ call'.jwt = tok /\ tok' = tok
              /\ call'.locals = [user_id |-> tok.payload.user_id,
                                 email |-> tok.payload.email,
                                 role |-> tok.payload.role]
      ]_vars

\* late in the token's life, after its owner was made admin and then deleted,
\* a request with the token was let through with the role of the token
C25_Witness ==
    /\ call.next /\ call.jwt = tok
    /\ now >= tok.payload.iat + TokenTTL - 1
    /\ users[tok.payload.user_id].deleted
    /\ users[tok.payload.user_id].role = "admin" /\ tok.payload.role # "admin"
    /\ call.locals.role = tok.payload.role /\ call.locals.user_id = tok.payload.user_id

\* the handlers that look a user up by the id the request names
UserLookups == {"FollowUser", "UnfollowUser", "UpdateUser", "DeleteUser", "GetUser"}

\* C26: db.Delete of DeleteUserHandler sets deleted_at and keeps the row as it
\* was; from then on the row stays deleted, every handler that looks the id
\* up answers without finding it, and a second DeleteUserHandler answers 404
C26_SoftDeleteStaysNotFound ==
    [][ \A u \in UserIds :
          /\ ( \E p \in Slots : Writes(p) /\ req[p].kind = "DeleteUser" /\ req[p].target = u
                                /\ req'[p].resp.code = 200 )
                => users'[u] = [users[u] EXCEPT !.deleted = TRUE]
          /\ users[u].deleted =>
                /\ users'[u].deleted
                /\ \A p \in Slots :
                     ( Begins(p) /\ req'[p].kind \in UserLookups /\ req'[p].target = u ) =>
                        /\ req'[p].pc = "done" /\ req'[p].resp.code # 200
                        /\ req'[p].kind = "DeleteUser" => req'[p].resp.code = 404
      ]_vars

\* C27: a Follow or Unfollow request that is answered with anything but 200,
\* at its checks (403, 400, 404, 409) or at its db.Save (500), leaves every
\* row of users and artists as it was
C27_FailedFollowWritesNothing ==
    [][ \A p \in Slots :
          ( /\ req[p].pc # "done" /\ req'[p].pc = "done"
            /\ req'[p].kind \in FollowKinds \cup UnfollowKinds
            /\ req'[p].resp.code # 200 )
          => users' = users /\ artists' = artists
      ]_vars

\* a second Follow was refused with 409 and the one follower is still listed
C27_Witness ==
    \E p \in Slots :
        /\ req[p].pc = "done" /\ req[p].kind = "FollowUser"
        /\ req[p].resp.code = 409
        /\ users[req[p].target].followers = <<Sprintf(req[p].uid)>>
        /\ users[req[p].target].total = 1

\* the followers other than s, in their order
Others(f, s) == SelectSeq(f, LAMBDA x : x # s)

\* C28: the db.Save of a Follow or Unfollow by identity X changes, in the
\* stored row of its target, the membership of X only: the other followers
\* stay, in their order; a Follow that answered 200 puts X after them; and no
\* other row changes
C28_OwnMembershipOnly ==
    [][\A p \in Slots :
        ( /\ Writes(p)
          /\ req[p].kind \in FollowKinds \cup UnfollowKinds )
        => LET old == RowOf(users, artists, req[p].kind, req[p].target)
               new == RowOf(users', artists', req[p].kind, req[p].target)
               fan == Sprintf(req[p].uid)
           IN  /\ Others(new.followers, fan) = Others(old.followers, fan)
               /\ ( req[p].kind \in FollowKinds /\ req'[p].resp.code = 200 )
                     => new.followers = Others(old.followers, fan) \o <<fan>>
               /\ \A u \in UserIds :
                     (req[p].kind \notin UserKinds \/ u # req[p].target) => users'[u] = users[u]
               /\ \A a \in ArtistIds :
                     (req[p].kind \notin ArtistKinds \/ a # req[p].target)
                         => artists'[a] = artists[a]
      ]_vars

\* the email of the login body is that of a live account that has a password
\* hash, and the password is the hashed one
GoodLogin(body, us) ==
    /\ body.ok
    /\ \E u \in UserIds : /\ Present(us, UserIds, u) /\ us[u].email = body.email
                          /\ us[u].password # ""
    /\ body.match

\* C29: LoginHandler answers 200 and hands out a token only when the email
\* belongs to a live account with a password hash and the password matches;
\* for an unknown email, an account without a hash and a wrong password it
\* answers 401; no other answer comes with a token; and the token carries the
\* id, the email and the role the row has at that instant
C29_LoginIssuesToken ==
    [][\A p \in Slots :
        ( req[p].pc = "idle" /\ req'[p].kind = "Login" ) =>
           LET body == req'[p].body IN
           /\ req'[p].resp.code = 200 <=> GoodLogin(body, users)
           /\ ( body.ok /\ ~GoodLogin(body, users) ) => req'[p].resp.code = 401
           /\ req'[p].resp.code # 200 => tok' = tok
           /\ req'[p].resp.code = 200 =>
                 /\ users[tok'.payload.user_id].email = body.email
                 /\ tok'.payload.email = body.email
                 /\ tok'.payload.role = users[tok'.payload.user_id].role
                 /\ Signed(tok') /\ tok'.payload.iat = now
                 /\ req'[p].resp.id = tok'.payload.user_id
      ]_vars

\* an account that was made admin after it was created logged in and got a
\* token with role admin
C29_Witness ==
    /\ req[1].kind = "Login" /\ req[1].pc = "done" /\ req[1].resp.code = 200
    /\ tok.payload.user_id = req[1].target /\ tok.payload.iat = now
    /\ tok.payload.role = "admin" /\ users[req[1].target].role = "admin"
    /\ InitRole(req[1].target) # "admin"

====
